---------------------------- MODULE Spec2Model ----------------------------
(***************************************************************************)
(* Model of the Samsung Exynos TMU driver (drivers/soc/samsung/exynos-pm.c,*)
(* the exynos_tmu.c part): calibration, multi-sensor read, threshold       *)
(* programming and the CPU-hotplug throttle policy.                        *)
(*                                                                         *)
(* 32-bit threshold registers are kept as two 16-bit half-words            *)
(* [hi |-> 0..65535, lo |-> 0..65535] so that the masking and or-ing of    *)
(* the code keeps its width.                                               *)
(***************************************************************************)
EXTENDS Integers, Sequences, FiniteSets, TLC

VARIABLES
    soc,            \* data->soc: which SoC variant's methods are installed
    data,           \* struct exynos_tmu_data: sensors, sensing_mode,
                    \*   temp_error1, temp_error2, hotplug_in_threshold,
                    \*   hotplug_out_threshold
    pdata,          \* struct exynos_tmu_platform_data: cal_type, efuse_value,
                    \*   first_point_trim, second_point_trim,
                    \*   default_temp_offset
    tz,             \* thermal zone: governor_name, trips (temp, hyst in mC)
    TRIMINFO,       \* EXYNOS_TMU_REG_TRIMINFO + 4 * i, by sensor index i
    THD_RISE,       \* rising threshold registers, by byte offset from
                    \*   EXYNOS_THD_TEMP_RISE7_6
    THD_FALL,       \* falling threshold registers, by byte offset from
                    \*   EXYNOS_THD_TEMP_FALL7_6
    CURRENT_TEMP,   \* EXYNOS_TMU_REG_CURRENT_TEMP1_0 / 4_2 / 7_5 by offset
    INTPEND,        \* pending-interrupt registers, by register offset
    is_cpu_hotplugged_out,          \* the file-scope flag
    thermal_cpu_hotplug_request,    \* value last requested through pm_qos
    cpufreq_state,  \* cpufreq_device->cpufreq_state of the cooling device
    init_ret,       \* observation of tmu_initialize: runs, writes, ret
    conv,           \* observation of a temp_to_code / code_to_temp pair
    read_ret,       \* observation of exynos8895_tmu_read
    hp_ret,         \* observation of exynos_throttle_cpu_hotplug
    dev,            \* the platform devices: probe state, DT id and the
                    \*   resources each instance of exynos_tmu_data holds
    dtm_dev_list,   \* the file-scope list of probed devices, head first
    pm_notifier,    \* times exynos_tmu_pm_notifier is on the PM chain
    suspended,      \* the file-scope flag
    pm_phase,       \* the PM core: running or suspending
    life_ret,       \* observation of the last lifecycle operation
    EMUL_CON,       \* EXYNOS_TMU_REG_EMUL_CON
    emul_ret,       \* observation of exynos_tmu_set_emulation
    variant,        \* samsung_pwm_chip.variant: bits, div_base
    hwpwm,          \* the PWM channel operated on
    pwm_chan,       \* struct samsung_pwm_channel of that channel
    clk,            \* rates of clk_div's parent, clk_div and clk_tin
    TCNTB,          \* REG_TCNTB(hwpwm)
    TCMPB,          \* REG_TCMPB(hwpwm)
    TCON,           \* REG_TCON: the set of bit numbers that are set
    pwm_ret,        \* observation of the last PWM operation
    zone,           \* p->tzd: whether it is set, and its last_temperature
    uevent,         \* the trip-change event of exynos_report_trigger
    irq_line,       \* data->irq: disable depth; irq_work queued or not
    work_ret,       \* observation of the last exynos_tmu_work
    INTEN,          \* interrupt-enable registers, by register offset
    CONTROL,        \* EXYNOS_TMU_REG_CONTROL: core-enable and trip-enable bits
    tmu_state,      \* the device: unbound, active or asleep
    ctl_ret,        \* observation of the last probe, suspend or resume
    exynos_pm_notifier_chain,   \* the listeners, head first: what each
                    \*   returns when it is called with LPA_ENTER
    lpa_ret,        \* observation of the last exynos_pm_lpa_enter
    pm_info,        \* struct exynos_pm_info: is_cp_call, is_early_wakeup
                    \*   and the four indices read from the device tree
    pm_dbg,         \* struct exynos_pm_dbg: test_cp_call
    pm_cycle,       \* the suspend cycle: its step and the indices used
    inverter_mask,  \* samsung_pwm_chip.inverter_mask: the set of channels
    output_mask,    \* variant.output_mask: the set of channels
    requested,      \* whether the channel has chip data (it is requested)
    pwm_asleep      \* whether pwm_samsung_suspend ran without a resume since

vars == <<soc, data, pdata, tz, TRIMINFO, THD_RISE, THD_FALL, CURRENT_TEMP,
          INTPEND, is_cpu_hotplugged_out, thermal_cpu_hotplug_request, cpufreq_state,
          init_ret, conv, read_ret, hp_ret,
          dev, dtm_dev_list, pm_notifier, suspended, pm_phase, life_ret,
          EMUL_CON, emul_ret,
          variant, hwpwm, pwm_chan, clk, TCNTB, TCMPB, TCON, pwm_ret,
          zone, uevent, irq_line, work_ret, INTEN, CONTROL, tmu_state, ctl_ret,
          exynos_pm_notifier_chain, lpa_ret, pm_info, pm_dbg, pm_cycle,
          inverter_mask, output_mask, requested, pwm_asleep>>

devVars == <<soc, data, pdata, tz, TRIMINFO>>
thdVars == <<THD_RISE, THD_FALL>>
hwVars  == <<CURRENT_TEMP, INTPEND>>
hpVars  == <<is_cpu_hotplugged_out, thermal_cpu_hotplug_request, cpufreq_state>>
lifeVars == <<dev, dtm_dev_list, pm_notifier, suspended, pm_phase, life_ret>>
\* the single-device TMU state of the calibration, threshold, read and
\* hotplug operations
tmuVars == <<devVars, thdVars, hwVars, hpVars, init_ret, conv, read_ret, hp_ret>>
\* everything those operations leave alone
emulVars == <<EMUL_CON, emul_ret>>
pwmVars == <<variant, hwpwm, pwm_chan, clk, TCNTB, TCMPB, TCON, pwm_ret>>
trigVars == <<zone, uevent>>
workVars == <<irq_line, work_ret>>
pmVars == <<exynos_pm_notifier_chain, lpa_ret, pm_info, pm_dbg, pm_cycle>>
chipVars == <<inverter_mask, output_mask, requested, pwm_asleep>>
\* everything but the TMU registers and their control state
extRest == <<lifeVars, emulVars, pwmVars, trigVars, workVars, pmVars, chipVars>>
ctlVars == <<INTEN, CONTROL, tmu_state, ctl_ret>>
extVars == <<lifeVars, emulVars, pwmVars, trigVars, workVars, ctlVars, pmVars, chipVars>>
\* everything the lifecycle operations leave alone
lifeRest == <<tmuVars, emulVars, pwmVars, trigVars, workVars, ctlVars, pmVars, chipVars>>

---------------------------------------------------------------------------
(* Program constants                                                       *)

MCELSIUS == 1000
TOTAL_SENSORS == 8
EXYNOS_TMU_TEMP_MASK == 511
EXYNOS_TMU_TEMP_SHIFT == 9
EXYNOS_TMU_CALIB_SEL_SHIFT == 23
EXYNOS_TMU_CALIB_SEL_MASK == 1
EXYNOS_TMU_TRIMINFO_85_P0_SHIFT == 9
EXYNOS_THD_TEMP_R_OFFSET == 288
EXYNOS_TMU_REG_INTPEND0 == 280
EXYNOS_TMU_REG_INTPEND5 == 792
EXYNOS_TMU_REG_INTPEN_OFFSET == 16
EXYNOS_TMU_REG_INTEN == 272
EXYNOS_TMU_INTEN_FALL0_SHIFT == 16
NSEC_PER_SEC == 1000000000
EXYNOS_EMUL_DATA_SHIFT == 7
EXYNOS_EMUL_DATA_MASK == 511
EXYNOS_EMUL_ENABLE == 1
TYPE_ONE_POINT_TRIMMING == 0
TYPE_TWO_POINT_TRIMMING == 1
\* the valid temperature range of the conversion (exynos_tmu.h)
EXYNOS_MIN_TEMP == 10
EXYNOS_MAX_TEMP == 125

---------------------------------------------------------------------------
(* Bounds of the model                                                     *)

MaxInitRuns == 2        \* tmu_initialize runs counted between power-downs
MaxPattern == 3         \* sensor code patterns 0..MaxPattern
MaxCoolingState == 2    \* cpufreq cooling states 0..MaxCoolingState
NumDevs == 2            \* platform devices the driver is bound to

---------------------------------------------------------------------------
(* Integer helpers: C arithmetic on top of TLA+ integers                   *)

Pow2(n) == 2 ^ n

\* C's integer division truncates toward zero
CDiv(a, b) ==
    LET q == (IF a < 0 THEN -a ELSE a) \div (IF b < 0 THEN -b ELSE b)
    IN  IF (a < 0) # (b < 0) THEN -q ELSE q

\* C's remainder takes the sign of the dividend
CMod(a, b) == a - b * CDiv(a, b)

\* (x >> shift) & mask, for a mask of the form 2^k - 1 and x >= 0
Field(x, shift, mask) == (x \div Pow2(shift)) % (mask + 1)

\* bitwise and / or of two 16-bit values
RECURSIVE And16(_, _, _)
And16(a, b, n) ==
    IF n = 0 THEN 0
    ELSE (IF a % 2 = 1 /\ b % 2 = 1 THEN 1 ELSE 0)
         + 2 * And16(a \div 2, b \div 2, n - 1)

RECURSIVE Or16(_, _, _)
Or16(a, b, n) ==
    IF n = 0 THEN 0
    ELSE (IF a % 2 = 1 \/ b % 2 = 1 THEN 1 ELSE 0)
         + 2 * Or16(a \div 2, b \div 2, n - 1)

\* an int converted to u32, as half-words (two's complement)
U32(x) == [hi |-> (x \div 65536) % 65536, lo |-> x % 65536]

\* x << s converted to u32, for s in {0, 16}
Shl32(x, s) == IF s = 0 THEN U32(x) ELSE [hi |-> x % 65536, lo |-> 0]

Or32(a, b)  == [hi |-> Or16(a.hi, b.hi, 16), lo |-> Or16(a.lo, b.lo, 16)]
And32(a, b) == [hi |-> And16(a.hi, b.hi, 16), lo |-> And16(a.lo, b.lo, 16)]
Not32(a)    == [hi |-> 65535 - a.hi, lo |-> 65535 - a.lo]

\* the 9-bit field of a threshold register at half-word bit_off
ThdField(r, bit_off) ==
    (IF bit_off = 0 THEN r.lo ELSE r.hi) % (EXYNOS_TMU_TEMP_MASK + 1)

---------------------------------------------------------------------------
(* Calibration: temp_to_code, code_to_temp                                 *)

\* temp_to_code(data, u8 temp): the caller's int is converted to u8
temp_to_code(pd, d, temp) ==
    LET t8 == temp % 256
        t  == IF t8 > EXYNOS_MAX_TEMP THEN EXYNOS_MAX_TEMP
              ELSE IF t8 < EXYNOS_MIN_TEMP THEN EXYNOS_MIN_TEMP
              ELSE t8
    IN  IF pd.cal_type = TYPE_TWO_POINT_TRIMMING
        THEN CDiv((t - pd.first_point_trim)
                    * (d.temp_error2 - d.temp_error1),
                  pd.second_point_trim - pd.first_point_trim)
             + d.temp_error1
        ELSE IF pd.cal_type = TYPE_ONE_POINT_TRIMMING
        THEN t + d.temp_error1 - pd.first_point_trim
        ELSE t + pd.default_temp_offset

\* code_to_temp divides by temp_error2 - temp_error1 in two-point mode
code_to_temp_div0(pd, d) ==
    pd.cal_type = TYPE_TWO_POINT_TRIMMING /\ d.temp_error2 = d.temp_error1

\* mutant: the two-point branch forgets to add first_point_trim back
code_to_temp_NoTrimOffset(pd, d, temp_code) ==
    LET c == temp_code % 65536
        t == IF pd.cal_type = TYPE_TWO_POINT_TRIMMING
             THEN CDiv((c - d.temp_error1)
                         * (pd.second_point_trim - pd.first_point_trim),
                       d.temp_error2 - d.temp_error1)
             ELSE IF pd.cal_type = TYPE_ONE_POINT_TRIMMING
             THEN c - d.temp_error1 + pd.first_point_trim
             ELSE c - pd.default_temp_offset
    IN  IF t > EXYNOS_MAX_TEMP THEN EXYNOS_MAX_TEMP
        ELSE IF t < EXYNOS_MIN_TEMP THEN EXYNOS_MIN_TEMP
        ELSE t

\* code_to_temp(data, u16 temp_code): the caller's int is converted to u16
code_to_temp(pd, d, temp_code) ==
    LET c == temp_code % 65536
        t == IF pd.cal_type = TYPE_TWO_POINT_TRIMMING
             THEN CDiv((c - d.temp_error1)
                         * (pd.second_point_trim - pd.first_point_trim),
                       d.temp_error2 - d.temp_error1)
                  + pd.first_point_trim
             ELSE IF pd.cal_type = TYPE_ONE_POINT_TRIMMING
             THEN c - d.temp_error1 + pd.first_point_trim
             ELSE c - pd.default_temp_offset
    IN  IF t > EXYNOS_MAX_TEMP THEN EXYNOS_MAX_TEMP
        ELSE IF t < EXYNOS_MIN_TEMP THEN EXYNOS_MIN_TEMP
        ELSE t

---------------------------------------------------------------------------
(* Threshold programming: exynos8890_tmu_initialize,                       *)
(* exynos8895_tmu_initialize                                               *)

SensorActive(mask, i) == (mask \div Pow2(i)) % 2 = 1

\* number of remote sensors counted by exynos_map_dt_data (bits 1..7)
NumOfRemotes(mask) == Cardinality({i \in 1..(TOTAL_SENSORS - 1) : SensorActive(mask, i)})

\* register and half-word of trip i: reg_off = ((7 - i) / 2) * 4,
\* bit_off = (8 - i) % 2
reg_off(i) == CDiv(7 - i, 2) * 4

\* mutant: the half-words of a pair swapped
bit_off_Swapped(i) == CMod(7 - i, 2)

bit_off(i) == CMod(8 - i, 2)

\* the calibration read from a TRIMINFO value, with the efuse fallback
TrimCalType(trim_info) ==
    Field(trim_info, EXYNOS_TMU_CALIB_SEL_SHIFT, EXYNOS_TMU_CALIB_SEL_MASK)

TrimError1(trim_info, efuse_value) ==
    LET e == Field(trim_info, 0, EXYNOS_TMU_TEMP_MASK)
    IN  IF e = 0 THEN Field(efuse_value, 0, EXYNOS_TMU_TEMP_MASK) ELSE e

TrimError2(trim_info, efuse_value) ==
    LET e == Field(trim_info, EXYNOS_TMU_TRIMINFO_85_P0_SHIFT, EXYNOS_TMU_TEMP_MASK)
    IN  IF e = 0
        THEN Field(efuse_value, EXYNOS_TMU_TRIMINFO_85_P0_SHIFT, EXYNOS_TMU_TEMP_MASK)
        ELSE e

\* whole Celsius of trip i and of its falling point (temp - hyst)
TripTemp(trips, i) == CDiv(trips[i + 1].temp, MCELSIUS)
TripTempHist(trips, i) == TripTemp(trips, i) - CDiv(trips[i + 1].hyst, MCELSIUS)

\* One pass of the loop body for trip i of sensor block j.  st carries the
\* register banks, the local falling_threshold (never re-read from the
\* register) and the list of writes.
ThdProgramTrip(st, pd, d, trips, i, j) ==
    LET ro    == reg_off(i) + (IF j > 0 THEN EXYNOS_THD_TEMP_R_OFFSET ELSE 0)
        bo    == bit_off(i)
        mask  == Not32(Shl32(EXYNOS_TMU_TEMP_MASK, 16 * bo))
        rcode == temp_to_code(pd, d, TripTemp(trips, i))
        fcode == temp_to_code(pd, d, TripTempHist(trips, i))
        rise  == Or32(And32(st.rise[ro], mask), Shl32(rcode, 16 * bo))
        fall  == Or32(And32(st.falling, mask), Shl32(fcode, 16 * bo))
    IN  [rise    |-> [st.rise EXCEPT ![ro] = rise],
         fall    |-> [st.fall EXCEPT ![ro] = fall],
         falling |-> fall,
         log     |-> Append(st.log, [sensor |-> j, trip |-> i, reg |-> ro,
                                     bit |-> bo, rcode |-> rcode,
                                     fcode |-> fcode])]

\* for (i = ntrips - 1; i >= 0; i--)
RECURSIVE ThdProgramTrips(_, _, _, _, _, _)
ThdProgramTrips(st, pd, d, trips, i, j) ==
    IF i < 0 THEN st
    ELSE ThdProgramTrips(ThdProgramTrip(st, pd, d, trips, i, j),
                         pd, d, trips, i - 1, j)

\* for (j = 0; j < TOTAL_SENSORS; j++) if (data->sensors & (1 << j))
RECURSIVE ThdProgramSensors(_, _, _, _, _)
ThdProgramSensors(st, pd, d, trips, j) ==
    IF j >= TOTAL_SENSORS THEN st
    ELSE ThdProgramSensors(
            IF SensorActive(d.sensors, j)
            THEN ThdProgramTrips(st, pd, d, trips, Len(trips) - 1, j)
            ELSE st,
            pd, d, trips, j + 1)

\* the pending register of sensor i
PendReg(i) ==
    IF i < 5 THEN EXYNOS_TMU_REG_INTPEND0 + EXYNOS_TMU_REG_INTPEN_OFFSET * i
    ELSE EXYNOS_TMU_REG_INTPEND5 + EXYNOS_TMU_REG_INTPEN_OFFSET * i

\* writing a pending register's value back clears the bits that were set
exynos8890_tmu_clear_irqs(pend) ==
    [pend EXCEPT ![EXYNOS_TMU_REG_INTPEND0] = 0]

exynos8895_tmu_clear_irqs(pend, mask) ==
    [o \in DOMAIN pend |->
        IF \E i \in 0..(TOTAL_SENSORS - 1) : SensorActive(mask, i) /\ PendReg(i) = o
        THEN 0 ELSE pend[o]]

ThdStart == [rise |-> THD_RISE, fall |-> THD_FALL, falling |-> U32(0), log |-> <<>>]

\* calibration part of exynos8890_tmu_initialize
Calib8890(pd, d, trim) ==
    [pd |-> [pd EXCEPT !.cal_type = TrimCalType(trim[0])],
     d  |-> [d EXCEPT !.temp_error1 = TrimError1(trim[0], pd.efuse_value),
                      !.temp_error2 = TrimError2(trim[0], pd.efuse_value)]]

\* calibration part of exynos8895_tmu_initialize: the main sensor only when
\* bit 0 of the mask is set; remote sensor i stores into remote_sensors[i],
\* an array of num_of_remotes entries (stores past its end are recorded in
\* oob and change nothing else here)
RECURSIVE Calib8895(_, _, _, _)
Calib8895(pd, d, trim, i) ==
    IF i >= TOTAL_SENSORS THEN [pd |-> pd, d |-> d]
    ELSE IF ~SensorActive(d.sensors, i) THEN Calib8895(pd, d, trim, i + 1)
    ELSE IF i = 0
    THEN LET pd1 == [pd EXCEPT !.cal_type = TrimCalType(trim[0])]
             d1  == [d EXCEPT !.temp_error1 = TrimError1(trim[0], pd.efuse_value)]
             d2  == IF pd1.cal_type = TYPE_TWO_POINT_TRIMMING
                    THEN [d1 EXCEPT !.temp_error2 = TrimError2(trim[0], pd.efuse_value)]
                    ELSE d1
         IN  Calib8895(pd1, d2, trim, i + 1)
    ELSE LET old == IF i \in DOMAIN d.remote_sensors
                    THEN d.remote_sensors[i]
                    ELSE [cal_type |-> 0, temp_error1 |-> 0, temp_error2 |-> 0]
             new == [cal_type    |-> TrimCalType(trim[i]),
                     temp_error1 |-> TrimError1(trim[i], pd.efuse_value),
                     temp_error2 |-> IF pd.cal_type = TYPE_TWO_POINT_TRIMMING
                                     THEN TrimError2(trim[i], pd.efuse_value)
                                     ELSE old.temp_error2]
             d1  == IF i \in DOMAIN d.remote_sensors
                    THEN [d EXCEPT !.remote_sensors[i] = new]
                    ELSE [d EXCEPT !.oob = @ \cup {i}]
         IN  Calib8895(pd, d1, trim, i + 1)

\* mutant: the thresholds are computed before the trim values are read
exynos8890_tmu_initialize_StaleCalib ==
    LET cal == Calib8890(pdata, data, TRIMINFO)
        st  == ThdProgramTrips(ThdStart, pdata, data, tz.trips,
                               Len(tz.trips) - 1, 0)
    IN  /\ pdata' = cal.pd
        /\ data' = cal.d
        /\ THD_RISE' = st.rise
        /\ THD_FALL' = st.fall
        /\ INTPEND' = exynos8890_tmu_clear_irqs(INTPEND)
        /\ init_ret' = [runs |-> init_ret.runs + 1, log |-> st.log, ret |-> 0]

exynos8890_tmu_initialize ==
    LET cal == Calib8890(pdata, data, TRIMINFO)
        st  == ThdProgramTrips(ThdStart, cal.pd, cal.d, tz.trips,
                               Len(tz.trips) - 1, 0)
    IN  /\ pdata' = cal.pd
        /\ data' = cal.d
        /\ THD_RISE' = st.rise
        /\ THD_FALL' = st.fall
        /\ INTPEND' = exynos8890_tmu_clear_irqs(INTPEND)
        /\ init_ret' = [runs |-> init_ret.runs + 1, log |-> st.log, ret |-> 0]

exynos8895_tmu_initialize ==
    LET cal == Calib8895(pdata, data, TRIMINFO, 0)
        st  == IF tz.governor_name # "power_allocator"
               THEN ThdProgramSensors(ThdStart, cal.pd, cal.d, tz.trips, 0)
               ELSE ThdStart
    IN  /\ pdata' = cal.pd
        /\ data' = cal.d
        /\ THD_RISE' = st.rise
        /\ THD_FALL' = st.fall
        /\ INTPEND' = exynos8895_tmu_clear_irqs(INTPEND, cal.d.sensors)
        /\ init_ret' = [runs |-> init_ret.runs + 1, log |-> st.log, ret |-> 0]

\* exynos_tmu_initialize: the variant's method (under data->lock)
TmuInitialize ==
    /\ init_ret.runs < MaxInitRuns
    /\ IF soc = "EXYNOS8890"
       THEN exynos8890_tmu_initialize
       ELSE exynos8895_tmu_initialize
    /\ UNCHANGED <<extVars, soc, tz, TRIMINFO, CURRENT_TEMP, hpVars, conv, read_ret, hp_ret>>

\* the threshold registers lose their contents over a power-down
PowerDownReset ==
    /\ init_ret.runs > 0
    /\ THD_RISE' = [o \in DOMAIN THD_RISE |-> U32(0)]
    /\ THD_FALL' = [o \in DOMAIN THD_FALL |-> U32(0)]
    /\ init_ret' = [runs |-> 0, log |-> <<>>, ret |-> 0]
    /\ UNCHANGED <<extVars, devVars, hwVars, hpVars, conv, read_ret, hp_ret>>

---------------------------------------------------------------------------
(* A conversion pair on the calibration left by tmu_initialize             *)

ApplyConversion(temp) ==
    /\ init_ret.runs > 0
    /\ ~conv.applied
    /\ LET code == temp_to_code(pdata, data, temp)
       IN  conv' = [applied |-> TRUE, temp |-> temp, code |-> code,
                    div0 |-> code_to_temp_div0(pdata, data),
                    back |-> IF code_to_temp_div0(pdata, data) THEN 0
                             ELSE code_to_temp(pdata, data, code)]
    /\ UNCHANGED <<extVars, devVars, thdVars, hwVars, hpVars, init_ret, read_ret, hp_ret>>

---------------------------------------------------------------------------
(* Sensor read: exynos8890_tmu_read, exynos8895_tmu_read                   *)

\* where the hardware keeps sensor i's current code: registers
\* CURRENT_TEMP1_0 (0x40), CURRENT_TEMP4_2 (0x44), CURRENT_TEMP7_5 (0x48)
HwSlot == <<[reg |-> 0, shift |-> 0], [reg |-> 0, shift |-> 9],
            [reg |-> 4, shift |-> 0], [reg |-> 4, shift |-> 9],
            [reg |-> 4, shift |-> 18],
            [reg |-> 8, shift |-> 0], [reg |-> 8, shift |-> 9],
            [reg |-> 8, shift |-> 18]>>

HwSensorCode(regs, i) ==
    Field(regs[HwSlot[i + 1].reg], HwSlot[i + 1].shift, EXYNOS_TMU_TEMP_MASK)

\* the code the driver extracts for sensor i
ReadSensorCode(regs, i) ==
    LET reg_offset == IF i < 2 THEN 0 ELSE (CDiv(i - 2, 3) + 1) * 4
        bit_offset == IF i < 2 THEN EXYNOS_TMU_TEMP_SHIFT * i
                      ELSE EXYNOS_TMU_TEMP_SHIFT * CMod(i - 2, 3)
    IN  Field(regs[reg_offset], bit_offset, EXYNOS_TMU_TEMP_MASK)

\* mutant: MAX keeps the code read last
ReadFold_MaxKeepsLast(mode, result, code) ==
    IF mode = "AVG" THEN result + code
    ELSE IF mode = "MAX" THEN code
    ELSE IF mode = "MIN" THEN (IF result < code THEN result ELSE code)
    ELSE code

\* the switch inside the loop
ReadFold(mode, result, code) ==
    IF mode = "AVG" THEN result + code
    ELSE IF mode = "MAX" THEN (IF result > code THEN result ELSE code)
    ELSE IF mode = "MIN" THEN (IF result < code THEN result ELSE code)
    ELSE code

\* for (i = 0; i < TOTAL_SENSORS; i++): st is [count, result]
RECURSIVE ReadLoop(_, _, _, _, _)
ReadLoop(st, mask, mode, regs, i) ==
    IF i >= TOTAL_SENSORS THEN st
    ELSE ReadLoop(
            IF SensorActive(mask, i)
            THEN [count  |-> st.count + 1,
                  result |-> ReadFold(mode, st.result, ReadSensorCode(regs, i))]
            ELSE st,
            mask, mode, regs, i + 1)

\* mutant: AVG divides by the number of sensor slots
ReadFinish_DivTotal(mode, st) ==
    IF mode = "AVG"
    THEN [div0 |-> FALSE, result |-> st.result \div TOTAL_SENSORS]
    ELSE [div0 |-> FALSE, result |-> st.result]

\* the switch after the loop: AVG divides by count
ReadFinish(mode, st) ==
    IF mode = "AVG"
    THEN IF st.count = 0
         THEN [div0 |-> TRUE, result |-> 0]
         ELSE [div0 |-> FALSE, result |-> st.result \div st.count]
    ELSE [div0 |-> FALSE, result |-> st.result]

exynos8895_tmu_read ==
    /\ soc = "EXYNOS8895"
    /\ LET st == ReadLoop([count |-> 0, result |-> 0], data.sensors,
                          data.sensing_mode, CURRENT_TEMP, 0)
           r  == ReadFinish(data.sensing_mode, st)
       IN  read_ret' = [called |-> TRUE, div0 |-> r.div0, result |-> r.result]
    /\ UNCHANGED <<extVars, devVars, thdVars, hwVars, hpVars, init_ret, conv, hp_ret>>

exynos8890_tmu_read ==
    /\ soc = "EXYNOS8890"
    /\ read_ret' = [called |-> TRUE, div0 |-> FALSE,
                    result |-> Field(CURRENT_TEMP[0] % 65536, 0, EXYNOS_TMU_TEMP_MASK)]
    /\ UNCHANGED <<extVars, devVars, thdVars, hwVars, hpVars, init_ret, conv, hp_ret>>

\* sensor code patterns the hardware is driven with
CodePattern(p, i) ==
    IF p = 0 THEN 10 * (i + 1)
    ELSE IF p = 1 THEN EXYNOS_TMU_TEMP_MASK
    ELSE IF p = 2 THEN 500 - 61 * i
    ELSE (97 * p * (i + 1) + 13 * p * p) % (EXYNOS_TMU_TEMP_MASK + 1)

RECURSIVE PackSlots(_, _, _)
PackSlots(p, o, i) ==
    IF i >= TOTAL_SENSORS THEN 0
    ELSE (IF HwSlot[i + 1].reg = o
          THEN CodePattern(p, i) * Pow2(HwSlot[i + 1].shift)
          ELSE 0)
         + PackSlots(p, o, i + 1)

PackCurrentTemp(p) == [o \in {0, 4, 8} |-> PackSlots(p, o, 0)]

\* the hardware samples new sensor codes
SensorSample(p) ==
    /\ CURRENT_TEMP' = PackCurrentTemp(p)
    /\ CURRENT_TEMP' # CURRENT_TEMP
    /\ read_ret' = [called |-> FALSE, div0 |-> FALSE, result |-> 0]
    /\ UNCHANGED <<extVars, devVars, thdVars, INTPEND, hpVars, init_ret, conv, hp_ret>>

---------------------------------------------------------------------------
(* CPU-hotplug throttle policy: exynos_throttle_cpu_hotplug                *)

\* mutant: the report is compared as it comes, in milli-Celsius
HotplugCelsius_Raw(temp) == temp

\* temp = temp / MCELSIUS
HotplugCelsius(temp) == CDiv(temp, MCELSIUS)

\* mutant: throttles only strictly above the out threshold
ThrottleDecision_StrictOut(is_out, t, in_thr, out_thr) ==
    IF is_out
    THEN IF t < in_thr
         THEN [out |-> FALSE, request |-> "NR_CPUS", release |-> TRUE]
         ELSE [out |-> TRUE, request |-> "none", release |-> FALSE]
    ELSE IF t > out_thr
         THEN [out |-> TRUE, request |-> "NR_HOTPLUG_CPUS", release |-> FALSE]
         ELSE [out |-> FALSE, request |-> "none", release |-> FALSE]

\* mutant: with in_thr >= out_thr a throttled state is never released
ThrottleDecision_Latched(is_out, t, in_thr, out_thr) ==
    IF is_out
    THEN IF t < in_thr /\ in_thr < out_thr
         THEN [out |-> FALSE, request |-> "NR_CPUS", release |-> TRUE]
         ELSE [out |-> TRUE, request |-> "none", release |-> FALSE]
    ELSE IF t >= out_thr
         THEN [out |-> TRUE, request |-> "NR_HOTPLUG_CPUS", release |-> FALSE]
         ELSE [out |-> FALSE, request |-> "none", release |-> FALSE]

\* the two-state decision: [out, request, release]
ThrottleDecision(is_out, t, in_thr, out_thr) ==
    IF is_out
    THEN IF t < in_thr
         THEN [out |-> FALSE, request |-> "NR_CPUS", release |-> TRUE]
         ELSE [out |-> TRUE, request |-> "none", release |-> FALSE]
    ELSE IF t >= out_thr
         THEN [out |-> TRUE, request |-> "NR_HOTPLUG_CPUS", release |-> FALSE]
         ELSE [out |-> FALSE, request |-> "none", release |-> FALSE]

exynos_throttle_cpu_hotplug(temp) ==
    LET dec == ThrottleDecision(is_cpu_hotplugged_out, HotplugCelsius(temp),
                                data.hotplug_in_threshold,
                                data.hotplug_out_threshold)
    IN  /\ is_cpu_hotplugged_out' = dec.out
        /\ thermal_cpu_hotplug_request' =
              IF dec.request = "none" THEN thermal_cpu_hotplug_request
              ELSE dec.request
        /\ cpufreq_state' = IF dec.release THEN 0 ELSE cpufreq_state
        /\ hp_ret' = [called |-> TRUE, temp |-> temp,
                      was_out |-> is_cpu_hotplugged_out,
                      request |-> dec.request]
        /\ UNCHANGED <<extVars, devVars, thdVars, hwVars, init_ret, conv, read_ret>>

\* the cooling framework moves the cpufreq cooling state
CoolingSetState(s) ==
    /\ cpufreq_state' = s
    /\ cpufreq_state' # cpufreq_state
    /\ UNCHANGED <<extVars, devVars, thdVars, hwVars, is_cpu_hotplugged_out,
                   thermal_cpu_hotplug_request, init_ret, conv, read_ret, hp_ret>>

---------------------------------------------------------------------------
(* Emulation: exynos_tmu_set_emulation (CONFIG_THERMAL_EMULATION set)      *)

\* mutant: the old data field is not cleared before the new code is or-ed in
get_emul_con_reg_NoClear(pd, d, val, temp) ==
    IF temp # 0
    THEN Or32(val,
              Or32(U32(temp_to_code(pd, d, CDiv(temp, MCELSIUS))
                         * Pow2(EXYNOS_EMUL_DATA_SHIFT)),
                   U32(EXYNOS_EMUL_ENABLE)))
    ELSE And32(val, Not32(U32(EXYNOS_EMUL_ENABLE)))

\* get_emul_con_reg: the new value of the emulation control register
get_emul_con_reg(pd, d, val, temp) ==
    IF temp # 0
    THEN Or32(And32(val, Not32(U32(EXYNOS_EMUL_DATA_MASK
                                     * Pow2(EXYNOS_EMUL_DATA_SHIFT)))),
              Or32(U32(temp_to_code(pd, d, CDiv(temp, MCELSIUS))
                         * Pow2(EXYNOS_EMUL_DATA_SHIFT)),
                   U32(EXYNOS_EMUL_ENABLE)))
    ELSE And32(val, Not32(U32(EXYNOS_EMUL_ENABLE)))

\* exynos8890_tmu_set_emulation (both variants install it): read, modify,
\* write of EXYNOS_TMU_REG_EMUL_CON
exynos8890_tmu_set_emulation(temp) ==
    EMUL_CON' = get_emul_con_reg(pdata, data, EMUL_CON, temp)

\* exynos_tmu_set_emulation, on the calibration left by tmu_initialize
exynos_tmu_set_emulation(temp) ==
    /\ init_ret.runs > 0
    /\ ~emul_ret.called
    /\ IF temp # 0 /\ temp < MCELSIUS
       THEN /\ EMUL_CON' = EMUL_CON
            /\ emul_ret' = [called |-> TRUE, temp |-> temp, ret |-> "EINVAL",
                            before |-> EMUL_CON]
       ELSE /\ exynos8890_tmu_set_emulation(temp)
            /\ emul_ret' = [called |-> TRUE, temp |-> temp, ret |-> "0",
                            before |-> EMUL_CON]
    /\ UNCHANGED <<tmuVars, lifeVars, pwmVars, trigVars, workVars, ctlVars, pmVars, chipVars>>

\* the emulation data field and enable bit of a register value
EmulData(val) ==
    (val.lo \div Pow2(EXYNOS_EMUL_DATA_SHIFT)) % (EXYNOS_EMUL_DATA_MASK + 1)
EmulEnabled(val) == val.lo % 2 = EXYNOS_EMUL_ENABLE

\* register contents before the call: reset, all ones, and an emulation of
\* code 44 running with the reset value of the time field
EmulConSamples ==
    { U32(0), [hi |-> 65535, lo |-> 65535], [hi |-> 22512, lo |-> 44 * 128 + 1] }

\* temperatures (milli-Celsius) handed to exynos_tmu_set_emulation
EmulTemps == {-1000, 0, 1, 999, 1000, 10000, 25000, 85000, 125000, 300000}

InitEmulWith(val) ==
    /\ EMUL_CON = val
    /\ emul_ret = [called |-> FALSE, temp |-> 0, ret |-> "0", before |-> val]

---------------------------------------------------------------------------
(* Trip report: exynos_report_trigger                                      *)

\* mutant: the loop also stops at a trip equal to the temperature
RECURSIVE TripLevel_Inclusive(_, _, _)
TripLevel_Inclusive(trips, last_temperature, i) ==
    IF i < Len(trips) /\ ~(last_temperature <= trips[i + 1].temp)
    THEN TripLevel_Inclusive(trips, last_temperature, i + 1)
    ELSE i

\* the loop of exynos_report_trigger, entered with i = 0: the value of i
\* when it ends
RECURSIVE TripLevel(_, _, _)
TripLevel(trips, last_temperature, i) ==
    IF i < Len(trips) /\ ~(last_temperature < trips[i + 1].temp)
    THEN TripLevel(trips, last_temperature, i + 1)
    ELSE i

\* exynos_report_trigger; thermal_zone_device_update stores the temperature
\* it reads in tz->last_temperature before the loop
exynos_report_trigger(temp) ==
    /\ IF ~zone.set
       THEN /\ uevent' = [sent |-> FALSE, level |-> 0]
            /\ zone' = zone
       ELSE /\ zone' = [zone EXCEPT !.last_temperature = temp]
            /\ uevent' = [sent |-> TRUE, level |-> TripLevel(tz.trips, temp, 0)]
    /\ UNCHANGED <<tmuVars, lifeVars, emulVars, pwmVars, workVars, ctlVars, pmVars, chipVars>>

InitTrigWith(set) ==
    /\ zone = [set |-> set, last_temperature |-> 0]
    /\ uevent = [sent |-> FALSE, level |-> 0]

---------------------------------------------------------------------------
(* Interrupt and deferred handler of one device, on the TMU registers      *)

\* the pending registers of the sensors of a mask
ActivePendRegs(mask) ==
    {PendReg(i) : i \in {k \in 0..(TOTAL_SENSORS - 1) : SensorActive(mask, k)}}

\* the hardware sets a pending bit of an active sensor
HwPend(i) ==
    /\ SensorActive(data.sensors, i)
    /\ INTPEND[PendReg(i)] = 0
    /\ INTPEND' = [INTPEND EXCEPT ![PendReg(i)] = 1]
    /\ UNCHANGED <<devVars, thdVars, CURRENT_TEMP, hpVars, init_ret, conv,
                   read_ret, hp_ret, extVars>>

\* exynos_tmu_irq on the device's line: disable_irq_nosync, schedule_work
\* (which does nothing when irq_work is already queued)
TmuIrq ==
    /\ irq_line.depth = 0
    /\ \E o \in ActivePendRegs(data.sensors) : INTPEND[o] # 0
    /\ irq_line' = [depth |-> irq_line.depth + 1, queued |-> TRUE]
    /\ UNCHANGED <<tmuVars, lifeVars, emulVars, pwmVars, trigVars, work_ret, ctlVars, pmVars, chipVars>>

\* data->tmu_clear_irqs of the device's variant
tmu_clear_irqs(pend) ==
    IF soc = "EXYNOS8890" THEN exynos8890_tmu_clear_irqs(pend)
    ELSE exynos8895_tmu_clear_irqs(pend, data.sensors)

\* mutant: the handler gives up when the device has no zone
exynos_tmu_work_GivesUp(temp) ==
    /\ irq_line.queued
    /\ IF ~zone.set
       THEN /\ UNCHANGED <<zone, INTPEND>>
            /\ uevent' = [sent |-> FALSE, level |-> 0]
            /\ irq_line' = [irq_line EXCEPT !.queued = FALSE]
            /\ work_ret' = [ran |-> TRUE, updated |-> FALSE, before |-> INTPEND]
       ELSE /\ zone' = [zone EXCEPT !.last_temperature = temp]
            /\ uevent' = [sent |-> TRUE, level |-> TripLevel(tz.trips, temp, 0)]
            /\ INTPEND' = tmu_clear_irqs(INTPEND)
            /\ irq_line' = [depth |-> irq_line.depth - 1, queued |-> FALSE]
            /\ work_ret' = [ran |-> TRUE, updated |-> TRUE, before |-> INTPEND]
    /\ UNCHANGED <<devVars, thdVars, CURRENT_TEMP, hpVars, init_ret, conv,
                   read_ret, hp_ret, lifeVars, emulVars, pwmVars, ctlVars, pmVars, chipVars>>

\* exynos_tmu_work, run by the workqueue for a queued irq_work:
\* exynos_report_trigger, tmu_clear_irqs under data->lock, enable_irq
exynos_tmu_work(temp) ==
    /\ irq_line.queued
    /\ IF ~zone.set
       THEN /\ uevent' = [sent |-> FALSE, level |-> 0]
            /\ zone' = zone
       ELSE /\ zone' = [zone EXCEPT !.last_temperature = temp]
            /\ uevent' = [sent |-> TRUE, level |-> TripLevel(tz.trips, temp, 0)]
    /\ INTPEND' = tmu_clear_irqs(INTPEND)
    /\ irq_line' = [depth |-> irq_line.depth - 1, queued |-> FALSE]
    /\ work_ret' = [ran |-> TRUE, updated |-> zone.set, before |-> INTPEND]
    /\ UNCHANGED <<devVars, thdVars, CURRENT_TEMP, hpVars, init_ret, conv,
                   read_ret, hp_ret, lifeVars, emulVars, pwmVars, ctlVars, pmVars, chipVars>>

InitWorkIdle ==
    /\ irq_line = [depth |-> 0, queued |-> FALSE]
    /\ work_ret = [ran |-> FALSE, updated |-> FALSE,
                   before |-> [o \in {PendReg(i) : i \in 0..(TOTAL_SENSORS - 1)}
                                |-> 0]]

---------------------------------------------------------------------------
(* tmu_control and the sleep hooks on the registers of one device          *)

\* the interrupt-enable register of sensor i (INTEN + 0x10 * i)
IntenReg(i) == EXYNOS_TMU_REG_INTEN + 16 * i
IntenRegs == {IntenReg(i) : i \in 0..(TOTAL_SENSORS - 1)}

\* of_thermal_is_trip_valid(tz, i) << EXYNOS_TMU_INTEN_RISEi_SHIFT, or-ed
\* over the eight levels
RECURSIVE RiseEnable(_, _)
RiseEnable(trips, i) ==
    IF i > 7 THEN 0
    ELSE (IF i < Len(trips) THEN Pow2(i) ELSE 0) + RiseEnable(trips, i + 1)

\* interrupt_en of tmu_control: the rising bits and the same bits shifted
\* to the falling half; 0 when switching off
InterruptEn(on) ==
    IF on
    THEN Or32(U32(RiseEnable(tz.trips, 0)),
              Shl32(RiseEnable(tz.trips, 0), EXYNOS_TMU_INTEN_FALL0_SHIFT))
    ELSE U32(0)

\* the core-enable and thermal-trip-enable bits of con
ControlCon(on) == [core_en |-> IF on THEN 1 ELSE 0,
                   therm_trip_en |-> IF on THEN 1 ELSE 0]

\* exynos8890_tmu_control: INTEN of the main sensor, then CONTROL
exynos8890_tmu_control(inten, on) ==
    [inten EXCEPT ![IntenReg(0)] = InterruptEn(on)]

\* mutant: the 8895 variant writes INTEN whatever the governor is
exynos8895_tmu_control_AnyGovernor(inten, on) ==
    [o \in DOMAIN inten |->
        IF \E i \in 0..(TOTAL_SENSORS - 1) :
              SensorActive(data.sensors, i) /\ IntenReg(i) = o
        THEN InterruptEn(on) ELSE inten[o]]

\* exynos8895_tmu_control: INTEN of every active sensor unless the governor
\* is the power allocator, then CONTROL and AVG_CON
exynos8895_tmu_control(inten, on) ==
    IF tz.governor_name # "power_allocator"
    THEN [o \in DOMAIN inten |->
            IF \E i \in 0..(TOTAL_SENSORS - 1) :
                  SensorActive(data.sensors, i) /\ IntenReg(i) = o
            THEN InterruptEn(on) ELSE inten[o]]
    ELSE inten

\* exynos_tmu_control: data->tmu_control under data->lock
exynos_tmu_control(on) ==
    /\ INTEN' = IF soc = "EXYNOS8890" THEN exynos8890_tmu_control(INTEN, on)
                ELSE exynos8895_tmu_control(INTEN, on)
    /\ CONTROL' = ControlCon(on)

\* exynos_tmu_initialize of the device's variant
tmu_initialize ==
    IF soc = "EXYNOS8890" THEN exynos8890_tmu_initialize
    ELSE exynos8895_tmu_initialize

\* the threshold, interrupt-enable and control registers
CtlRegs(rise, fall, inten, con) ==
    [rise |-> rise, fall |-> fall, inten |-> inten, con |-> con]

ctlRest == <<extRest, soc, tz, TRIMINFO, CURRENT_TEMP, hpVars, conv, read_ret, hp_ret>>

\* exynos_tmu_probe, its register accesses: exynos_tmu_initialize, then
\* exynos_tmu_control(pdev, true)
TmuProbe ==
    /\ tmu_state = "unbound"
    /\ init_ret.runs < MaxInitRuns
    /\ tmu_initialize
    /\ exynos_tmu_control(TRUE)
    /\ tmu_state' = "active"
    /\ ctl_ret' = [op |-> "probe", steps |-> <<"tmu_initialize", "tmu_control">>,
                   before |-> CtlRegs(THD_RISE, THD_FALL, INTEN, CONTROL),
                   probed |-> CtlRegs(THD_RISE', THD_FALL', INTEN', CONTROL'),
                   found |-> CtlRegs(THD_RISE, THD_FALL, INTEN, CONTROL),
                   reset |-> FALSE]
    /\ UNCHANGED ctlRest

\* exynos_tmu_suspend: exynos_tmu_control(pdev, false), in the caller
TmuSuspend ==
    /\ tmu_state = "active"
    /\ exynos_tmu_control(FALSE)
    /\ tmu_state' = "asleep"
    /\ ctl_ret' = [ctl_ret EXCEPT !.op = "suspend", !.steps = <<"tmu_control">>,
                   !.before = CtlRegs(THD_RISE, THD_FALL, INTEN, CONTROL),
                   !.reset = FALSE]
    /\ UNCHANGED <<ctlRest, data, pdata, thdVars, INTPEND, init_ret>>

\* the block loses its threshold registers while the system sleeps
TmuPowerDown ==
    /\ tmu_state = "asleep"
    /\ ~ctl_ret.reset
    /\ THD_RISE' = [o \in DOMAIN THD_RISE |-> U32(0)]
    /\ THD_FALL' = [o \in DOMAIN THD_FALL |-> U32(0)]
    /\ ctl_ret' = [ctl_ret EXCEPT !.reset = TRUE]
    /\ UNCHANGED <<ctlRest, data, pdata, INTPEND, init_ret, INTEN, CONTROL, tmu_state>>

\* mutant: the core is enabled before the thresholds are written
ResumeOrder_ControlFirst == << "tmu_control", "tmu_initialize" >>

\* exynos_tmu_resume, its calls in order
ResumeOrder == << "tmu_initialize", "tmu_control" >>

\* exynos_tmu_resume: exynos_tmu_initialize, exynos_tmu_control(pdev, true)
TmuResume ==
    /\ tmu_state = "asleep"
    /\ init_ret.runs < MaxInitRuns
    /\ tmu_initialize
    /\ exynos_tmu_control(TRUE)
    /\ tmu_state' = "active"
    /\ ctl_ret' = [ctl_ret EXCEPT !.op = "resume", !.steps = ResumeOrder,
                   !.before = CtlRegs(THD_RISE, THD_FALL, INTEN, CONTROL)]
    /\ UNCHANGED ctlRest

InitCtlIdle ==
    /\ INTEN = [o \in IntenRegs |-> U32(0)]
    /\ CONTROL = ControlCon(FALSE)
    /\ tmu_state = "unbound"
    /\ ctl_ret = [op |-> "none", steps |-> <<>>,
                  before |-> CtlRegs(<<>>, <<>>, <<>>, ControlCon(FALSE)),
                  probed |-> CtlRegs(<<>>, <<>>, <<>>, ControlCon(FALSE)),
                  found |-> CtlRegs(<<>>, <<>>, <<>>, ControlCon(FALSE)),
                  reset |-> FALSE]

---------------------------------------------------------------------------
(* PWM: pwm-samsung.c, one requested channel                               *)

\* the variants that differ in counter width and first divisor: s3c24xx and
\* s3c64xx (16 bits, div_base 1), s5p64x0 and s5pc100 (32 bits, div_base 0)
Variants ==
    { [bits |-> 16, div_base |-> 1], [bits |-> 32, div_base |-> 0] }

\* x >> n on an unsigned long of 64 bits holding a value below 2^31
Shr(x, n) == IF n >= 31 THEN 0 ELSE x \div Pow2(n)

\* DIV_ROUND_CLOSEST on unsigned operands
DIV_ROUND_CLOSEST(x, divisor) == (x + (divisor \div 2)) \div divisor

\* to_tcon_channel: TCON has a gap of one channel after channel 0
to_tcon_channel(channel) == IF channel = 0 THEN 0 ELSE channel + 1

\* the TCON bit numbers of a TCON channel
TCON_START(chan) == 4 * chan + 0
TCON_MANUALUPDATE(chan) == 4 * chan + 1
TCON_INVERT(chan) == 4 * chan + 2
TCON_AUTORELOAD(chan) == IF chan < 5 THEN 4 * chan + 3 ELSE 4 * chan + 2

\* the divisor loop of pwm_samsung_calc_tin, entered with div = div_base
RECURSIVE CalcDiv(_, _, _, _)
CalcDiv(rate, freq, bits, div) ==
    IF div < 4 /\ ~(Shr(rate, bits + div) < freq)
    THEN CalcDiv(rate, freq, bits, div + 1)
    ELSE div

\* pwm_samsung_calc_tin: the rate it returns and the rate clk_div has when
\* it returns (pwm_samsung_set_divisor is clk_set_rate(clk_div, rate >> div))
pwm_samsung_calc_tin(v, c, freq) ==
    IF ~c.is_tdiv /\ c.tin_rate # 0
    THEN [rate |-> c.tin_rate, div_rate |-> c.div_rate]
    ELSE LET rate == c.parent_rate
             div  == CalcDiv(rate, freq, v.bits, v.div_base)
         IN  [rate |-> Shr(rate, div), div_rate |-> Shr(rate, div)]

\* pwm_samsung_manual_update: the value it leaves in TCON
pwm_samsung_manual_update(tcon, tcon_chan, duty_cycle) ==
    LET t1 == tcon \ {TCON_MANUALUPDATE(tcon_chan)}
        t2 == IF duty_cycle = "DUTY_CYCLE_ZERO"
              THEN t1 \ {TCON_AUTORELOAD(tcon_chan)}
              ELSE t1 \cup {TCON_AUTORELOAD(tcon_chan)}
    IN  t2 \cup {TCON_START(tcon_chan)}

\* what a PWM operation may change, before the operation
PwmSnapshot ==
    [chan |-> pwm_chan, tcntb |-> TCNTB, tcmpb |-> TCMPB, tcon |-> TCON,
     div_rate |-> clk.div_rate]

\* pwm_samsung_config; the PWM core calls it with period_ns > 0 and
\* 0 <= duty_ns <= period_ns
pwm_samsung_config(duty_ns, period_ns) ==
    LET tcon_chan == to_tcon_channel(hwpwm)
        retune    == pwm_chan.period_ns # period_ns
        tin       == pwm_samsung_calc_tin(variant, clk, NSEC_PER_SEC \div period_ns)
        tin_ns    == IF retune THEN NSEC_PER_SEC \div tin.rate ELSE pwm_chan.tin_ns
        tcnt      == DIV_ROUND_CLOSEST(period_ns, tin_ns)
        tcmp      == DIV_ROUND_CLOSEST(duty_ns, tin_ns)
        duty_cycle == IF tcmp = 0 THEN "DUTY_CYCLE_ZERO"
                      ELSE IF tcmp = tcnt THEN "DUTY_CYCLE_FULL"
                      ELSE "DUTY_CYCLE_PULSE"
        tcmp2     == IF tcnt - tcmp = tcnt THEN tcnt - tcmp - 1 ELSE tcnt - tcmp
        obs(ret, w) == [op |-> "config", ret |-> ret, duty_ns |-> duty_ns,
                        period_ns |-> period_ns, before |-> PwmSnapshot,
                        writes |-> w]
        forced    == /\ pwm_chan.running = 1
                     /\ TCON_START(tcon_chan) \in TCON
                     /\ pwm_chan.duty_cycle # duty_cycle
    IN  /\ period_ns > 0 /\ duty_ns >= 0
        /\ (duty_ns <= period_ns)
        /\ IF period_ns > NSEC_PER_SEC
           THEN /\ pwm_ret' = obs("ERANGE", <<>>)
                /\ UNCHANGED <<pwm_chan, clk, TCNTB, TCMPB, TCON>>
           ELSE IF period_ns = pwm_chan.period_ns /\ duty_ns = pwm_chan.duty_ns
           THEN /\ pwm_ret' = obs("0", <<>>)
                /\ UNCHANGED <<pwm_chan, clk, TCNTB, TCMPB, TCON>>
           ELSE /\ clk' = IF retune THEN [clk EXCEPT !.div_rate = tin.div_rate]
                          ELSE clk
                /\ IF retune /\ tin.rate = 0
                   THEN /\ pwm_ret' = obs("EINVAL", <<>>)
                        /\ UNCHANGED <<pwm_chan, TCNTB, TCMPB, TCON>>
                   ELSE IF tcnt <= 1
                   THEN /\ pwm_ret' = obs("ERANGE", <<>>)
                        /\ UNCHANGED <<pwm_chan, TCNTB, TCMPB, TCON>>
                   ELSE /\ TCNTB' = U32(tcnt - 1)
                        /\ TCMPB' = U32(tcmp2 - 1)
                        /\ TCON' =
                             IF forced
                             THEN IF duty_cycle = "DUTY_CYCLE_ZERO"
                                  THEN pwm_samsung_manual_update(
                                          TCON, tcon_chan, pwm_chan.duty_cycle)
                                  ELSE TCON \cup {TCON_AUTORELOAD(tcon_chan)}
                             ELSE TCON
                        /\ pwm_chan' = [pwm_chan EXCEPT !.period_ns = period_ns,
                                                        !.tin_ns = tin_ns,
                                                        !.duty_ns = duty_ns,
                                                        !.duty_cycle = duty_cycle]
                        /\ pwm_ret' = obs("0",
                             <<"TCNTB", "TCMPB">> \o
                             (IF ~forced THEN <<>>
                              ELSE IF duty_cycle = "DUTY_CYCLE_ZERO"
                              THEN <<"TCON", "TCON">> ELSE <<"TCON">>))
        /\ UNCHANGED <<tmuVars, lifeVars, emulVars, trigVars, workVars, ctlVars, pmVars, chipVars, variant,
                       hwpwm>>

\* pwm_samsung_enable
pwm_samsung_enable ==
    LET tcon_chan == to_tcon_channel(hwpwm)
        update    == \/ TCON_START(tcon_chan) \notin TCON
                     \/ /\ TCON_AUTORELOAD(tcon_chan) \notin TCON
                        /\ pwm_chan.duty_cycle # "DUTY_CYCLE_ZERO"
    IN  /\ TCON' = IF update
                   THEN pwm_samsung_manual_update(TCON, tcon_chan,
                                                  pwm_chan.duty_cycle)
                   ELSE TCON
        /\ pwm_chan' = [pwm_chan EXCEPT !.running = 1]
        /\ pwm_ret' = [op |-> "enable", ret |-> "0", duty_ns |-> 0,
                       period_ns |-> 0, before |-> PwmSnapshot,
                       writes |-> IF update THEN <<"TCON", "TCON">> ELSE <<>>]
        /\ UNCHANGED <<tmuVars, lifeVars, emulVars, trigVars, workVars, ctlVars, pmVars, chipVars, variant,
                       hwpwm, clk,
                       TCNTB, TCMPB>>

\* pwm_samsung_disable
pwm_samsung_disable ==
    /\ TCON' = TCON \ {TCON_AUTORELOAD(to_tcon_channel(hwpwm))}
    /\ pwm_chan' = [pwm_chan EXCEPT !.running = 0]
    /\ pwm_ret' = [op |-> "disable", ret |-> "0", duty_ns |-> 0,
                   period_ns |-> 0, before |-> PwmSnapshot,
                   writes |-> <<"TCON">>]
    /\ UNCHANGED <<tmuVars, lifeVars, emulVars, trigVars, workVars, ctlVars, pmVars, chipVars, variant,
                       hwpwm, clk,
                   TCNTB, TCMPB>>

\* the channel after pwm_samsung_request: a zeroed samsung_pwm_channel, and
\* the registers as pwm_samsung_init leaves them; clk_div at the variant's
\* first divisor
InitPwmWith(v, channel, parent_rate, is_tdiv, tin_rate) ==
    /\ variant = v
    /\ hwpwm = channel
    /\ pwm_chan = [period_ns |-> 0, duty_ns |-> 0, tin_ns |-> 0, running |-> 0,
                   duty_cycle |-> "DUTY_CYCLE_ZERO"]
    /\ clk = [parent_rate |-> parent_rate,
              div_rate |-> Shr(parent_rate, v.div_base),
              is_tdiv |-> is_tdiv, tin_rate |-> tin_rate]
    /\ TCNTB = U32(0)
    /\ TCMPB = U32(0)
    /\ TCON = ({TCON_INVERT(to_tcon_channel(channel))}
                 \ {TCON_AUTORELOAD(to_tcon_channel(channel)),
                    TCON_START(to_tcon_channel(channel))})
    /\ pwm_ret = [op |-> "request", ret |-> "0", duty_ns |-> 0, period_ns |-> 0,
                  before |-> [chan |-> pwm_chan, tcntb |-> TCNTB,
                              tcmpb |-> TCMPB, tcon |-> TCON,
                              div_rate |-> clk.div_rate],
                  writes |-> <<"TCMPB", "TCNTB", "TCON", "TCON">>]

InitPwmIdle ==
    InitPwmWith([bits |-> 32, div_base |-> 0], 0, 66000000, TRUE, 66000000)

\* rates of the timer block's input clock (0: not running) and of an
\* external tin clock (0: inoperational)
PwmParentRates == {0, 66000000}
PwmTinRates == {0, 32768}

\* periods handed to pwm_samsung_config: shorter than a tick, ordinary, one
\* second, and beyond one second
PwmPeriods == {10, 1000000, NSEC_PER_SEC, NSEC_PER_SEC + 1}
PwmDuties(period_ns) == {0, period_ns \div 2, period_ns}

\* SAMSUNG_PWM_NUM: the channels of the timer block
SAMSUNG_PWM_NUM == 5
Channels == 0..(SAMSUNG_PWM_NUM - 1)

\* the four TCON bits of a channel
ChannelBits(channel) ==
    LET t == to_tcon_channel(channel)
    IN  {TCON_START(t), TCON_MANUALUPDATE(t), TCON_INVERT(t), TCON_AUTORELOAD(t)}

\* pwm_samsung_init: the value its two writes leave in TCON
pwm_samsung_init(tcon, channel) ==
    LET t  == to_tcon_channel(channel)
        t1 == tcon \cup {TCON_INVERT(t), TCON_MANUALUPDATE(t)}
        t2 == t1 \ {TCON_AUTORELOAD(t), TCON_START(t)}
    IN  t2 \ {TCON_MANUALUPDATE(t)}

\* pwm_samsung_set_invert: inverter_mask and TCON as it leaves them
pwm_samsung_set_invert(mask, tcon, channel, invert) ==
    LET t == to_tcon_channel(channel)
    IN  IF invert
        THEN [inverter_mask |-> mask \cup {channel},
              tcon |-> tcon \cup {TCON_INVERT(t)}]
        ELSE [inverter_mask |-> mask \ {channel},
              tcon |-> tcon \ {TCON_INVERT(t)}]

\* pwm_samsung_probe: inverter_mask starts with every channel's bit, then
\* every output channel is set to inverted, in channel order
RECURSIVE ProbeInvert(_, _, _, _)
ProbeInvert(mask, tcon, outputs, chan) ==
    IF chan >= SAMSUNG_PWM_NUM THEN [inverter_mask |-> mask, tcon |-> tcon]
    ELSE IF chan \in outputs
    THEN LET r == pwm_samsung_set_invert(mask, tcon, chan, TRUE)
         IN  ProbeInvert(r.inverter_mask, r.tcon, outputs, chan + 1)
    ELSE ProbeInvert(mask, tcon, outputs, chan + 1)

pwm_samsung_probe(tcon, outputs) == ProbeInvert(Channels, tcon, outputs, 0)

\* the observation of an operation that takes no duty and period
ChipObs(op, ret, w) ==
    [op |-> op, ret |-> ret, duty_ns |-> 0, period_ns |-> 0,
     before |-> PwmSnapshot, writes |-> w]

\* the PWM core calls the channel operations on a requested device, and
\* nothing runs between the sleep hooks
InUse == requested /\ ~pwm_asleep

\* pwm_samsung_request: refused for a channel without output; otherwise a
\* zeroed samsung_pwm_channel and pwm_samsung_init
pwm_samsung_request ==
    /\ ~requested /\ ~pwm_asleep
    /\ IF hwpwm \notin output_mask
       THEN /\ pwm_ret' = ChipObs("request", "EINVAL", <<>>)
            /\ UNCHANGED <<requested, pwm_chan, TCNTB, TCMPB, TCON>>
       ELSE /\ requested' = TRUE
            /\ pwm_chan' = [period_ns |-> 0, duty_ns |-> 0, tin_ns |-> 0,
                            running |-> 0, duty_cycle |-> "DUTY_CYCLE_ZERO"]
            /\ TCMPB' = U32(0)
            /\ TCNTB' = U32(0)
            /\ TCON' = pwm_samsung_init(TCON, hwpwm)
            /\ pwm_ret' = ChipObs("request", "0",
                                  <<"TCMPB", "TCNTB", "TCON", "TCON">>)
    /\ UNCHANGED <<tmuVars, lifeVars, emulVars, trigVars, workVars, ctlVars,
                   pmVars, variant, hwpwm, clk, inverter_mask, output_mask,
                   pwm_asleep>>

\* pwm_samsung_free: the chip data is freed, no register is touched
pwm_samsung_free ==
    /\ InUse
    /\ requested' = FALSE
    /\ pwm_ret' = ChipObs("free", "0", <<>>)
    /\ UNCHANGED <<tmuVars, lifeVars, emulVars, trigVars, workVars, ctlVars,
                   pmVars, variant, hwpwm, pwm_chan, clk, TCNTB, TCMPB, TCON,
                   inverter_mask, output_mask, pwm_asleep>>

\* pwm_samsung_set_polarity: normal polarity is the inverted hardware
\* output (the PWM core refuses a polarity change of an enabled PWM)
pwm_samsung_set_polarity(polarity) ==
    LET r == pwm_samsung_set_invert(inverter_mask, TCON, hwpwm,
                                    polarity = "PWM_POLARITY_NORMAL")
    IN  /\ InUse
        /\ pwm_chan.running = 0
        /\ inverter_mask' = r.inverter_mask
        /\ TCON' = r.tcon
        /\ pwm_ret' = ChipObs(polarity, "0", <<"TCON">>)
        /\ UNCHANGED <<tmuVars, lifeVars, emulVars, trigVars, workVars, ctlVars,
                       pmVars, variant, hwpwm, pwm_chan, clk, TCNTB, TCMPB,
                       output_mask, requested, pwm_asleep>>

\* the step of pwm_samsung_suspend for a channel that has chip data: the
\* value it leaves in TCON
SuspendChannel(tcon, channel, chan) ==
    LET t  == to_tcon_channel(channel)
        t1 == IF chan.duty_cycle = "DUTY_CYCLE_ZERO"
              THEN tcon \cup {TCON_MANUALUPDATE(t)}
              ELSE IF chan.duty_cycle = "DUTY_CYCLE_FULL"
              THEN (tcon \cap {TCON_INVERT(t)}) \cup {TCON_MANUALUPDATE(t)}
              ELSE tcon
    IN  IF chan.running = 0 THEN t1 \ {TCON_START(t)} ELSE tcon

\* mutant: the recorded period and duty survive the suspend
pwm_samsung_suspend_KeepsRecord ==
    /\ ~pwm_asleep
    /\ pwm_asleep' = TRUE
    /\ IF requested
       THEN /\ TCON' = SuspendChannel(TCON, hwpwm, pwm_chan)
            /\ pwm_ret' = ChipObs("suspend", "0",
                             IF pwm_chan.running = 0 THEN <<"TCON">> ELSE <<>>)
            /\ UNCHANGED pwm_chan
       ELSE /\ pwm_ret' = ChipObs("suspend", "0", <<>>)
            /\ UNCHANGED <<TCON, pwm_chan>>
    /\ UNCHANGED <<tmuVars, lifeVars, emulVars, trigVars, workVars, ctlVars,
                   pmVars, variant, hwpwm, clk, TCNTB, TCMPB, inverter_mask,
                   output_mask, requested>>

\* pwm_samsung_suspend: channels without chip data are skipped
pwm_samsung_suspend ==
    /\ ~pwm_asleep
    /\ pwm_asleep' = TRUE
    /\ IF requested
       THEN /\ TCON' = SuspendChannel(TCON, hwpwm, pwm_chan)
            /\ pwm_chan' = [pwm_chan EXCEPT !.period_ns = -1, !.duty_ns = -1]
            /\ pwm_ret' = ChipObs("suspend", "0",
                             IF pwm_chan.running = 0 THEN <<"TCON">> ELSE <<>>)
       ELSE /\ pwm_ret' = ChipObs("suspend", "0", <<>>)
            /\ UNCHANGED <<TCON, pwm_chan>>
    /\ UNCHANGED <<tmuVars, lifeVars, emulVars, trigVars, workVars, ctlVars,
                   pmVars, variant, hwpwm, clk, TCNTB, TCMPB, inverter_mask,
                   output_mask, requested>>

\* the loop of pwm_samsung_resume: pwm_samsung_init on every output channel
RECURSIVE ResumeInit(_, _, _)
ResumeInit(tcon, outputs, chan) ==
    IF chan >= SAMSUNG_PWM_NUM THEN tcon
    ELSE IF chan \in outputs
    THEN ResumeInit(pwm_samsung_init(tcon, chan), outputs, chan + 1)
    ELSE ResumeInit(tcon, outputs, chan + 1)

\* pwm_samsung_resume
pwm_samsung_resume ==
    /\ pwm_asleep
    /\ pwm_asleep' = FALSE
    /\ TCON' = ResumeInit(TCON, output_mask, 0)
    /\ IF hwpwm \in output_mask
       THEN TCMPB' = U32(0) /\ TCNTB' = U32(0)
       ELSE UNCHANGED <<TCMPB, TCNTB>>
    /\ pwm_ret' = ChipObs("resume", "0",
                     IF hwpwm \in output_mask
                     THEN <<"TCMPB", "TCNTB", "TCON", "TCON">> ELSE <<>>)
    /\ UNCHANGED <<tmuVars, lifeVars, emulVars, trigVars, workVars, ctlVars,
                   pmVars, variant, hwpwm, pwm_chan, clk, inverter_mask,
                   output_mask, requested>>

\* the chip behind a channel that was requested and never put to sleep
InitChipIdle ==
    /\ inverter_mask = Channels
    /\ output_mask = Channels
    /\ requested = TRUE
    /\ pwm_asleep = FALSE

---------------------------------------------------------------------------
(* Device lifecycle: exynos_tmu_probe, exynos_tmu_remove, the interrupt    *)
(* and its deferred work, the PM notifier and the sleep hooks.             *)
(*                                                                         *)
(* Several platform devices share dtm_dev_list, the PM notifier and the    *)
(* suspended flag.  Of each device's registers this part keeps whether     *)
(* any interrupt-enable bit (inten) and any pending bit (pend) is set.     *)
(* The build has CONFIG_PM_SLEEP and CONFIG_CPU_FREQ set and               *)
(* CONFIG_GPU_THERMAL and CONFIG_ISP_THERMAL unset.                        *)

Devices == 1..NumDevs

\* values of the "id" property of the device tree
DtIds == 0..NumDevs

\* mutant: the interrupt is requested before the TMU is initialized
ProbeSteps_IrqFirst ==
    << "cpufreq_table", "alloc_data", "map_dt_early", "alloc_remote",
       "map_dt_late", "cooling_register", "pm_qos_add", "sensor_register",
       "request_irq", "tmu_initialize", "tmu_control", "list_add",
       "register_notifier", "set_mode" >>

\* exynos_tmu_probe, in the order it runs
ProbeSteps ==
    << "cpufreq_table", "alloc_data", "map_dt_early", "alloc_remote",
       "map_dt_late", "cooling_register", "pm_qos_add", "sensor_register",
       "tmu_initialize", "request_irq", "tmu_control", "list_add",
       "register_notifier", "set_mode" >>

\* the steps whose result exynos_tmu_probe checks, and that can fail
ProbeFailPoints ==
    { "cpufreq_table", "alloc_data", "map_dt_early", "map_dt_late",
      "cooling_register", "sensor_register", "request_irq" }

StepIndex(s) == CHOOSE i \in 1..Len(ProbeSteps) : ProbeSteps[i] = s

\* step s ran to completion in a probe that fails at step fail
StepDone(fail, s) == fail = "none" \/ StepIndex(s) < StepIndex(fail)

\* the return value of a probe failing at step fail
ProbeRet(fail) ==
    CASE fail = "none" -> "0"
      [] fail = "cpufreq_table" -> "EPROBE_DEFER"
      [] fail = "alloc_data" -> "ENOMEM"
      [] fail = "map_dt_early" -> "ENODEV"
      [] fail = "map_dt_late" -> "EINVAL"
      [] OTHER -> "error"

\* a device the driver has not been bound to
UnboundDev(id, hotplug) ==
    [ state |-> "unbound",      \* unbound, bound, failed, removed, oops
      id |-> id, hotplug_enable |-> hotplug,
      remote_sensors |-> FALSE, \* kzalloc of exynos_map_dt_data is held
      cool_dev |-> FALSE,       \* a cooling device is registered
      pm_qos |-> FALSE,         \* thermal_cpu_hotplug_request is added
      tzd |-> FALSE,            \* the thermal-zone sensor is registered
      irq |-> FALSE,            \* exynos_tmu_irq is installed on the line
      depth |-> 0,              \* disable depth of the interrupt line
      inten |-> FALSE,          \* some bit of the INTEN registers is set
      pend |-> FALSE,           \* some bit of the INTPEND registers is set
      asleep |-> FALSE,         \* between exynos_tmu_suspend and _resume
      pending |-> FALSE,        \* irq_work is queued
      pc |-> "idle",            \* exynos_tmu_work: idle, report, clear, enable
      wtrace |-> <<>> ]         \* what the running exynos_tmu_work did so far

\* what the hardware-facing calls of a step leave in the operation's trace
StepTrace(s) ==
    CASE s = "tmu_initialize" -> <<"clear_irqs">>
      [] s = "request_irq" -> <<"unmask">>
      [] s = "tmu_control" -> <<"inten_on">>
      [] OTHER -> <<>>

RECURSIVE ProbeTrace(_, _)
ProbeTrace(fail, i) ==
    IF i > Len(ProbeSteps) THEN <<>>
    ELSE (IF StepDone(fail, ProbeSteps[i]) THEN StepTrace(ProbeSteps[i]) ELSE <<>>)
         \o ProbeTrace(fail, i + 1)

\* mutant: the list is only tested for being non-empty
list_is_singular_NonEmpty(list) == Len(list) >= 1

\* list_is_singular(&dtm_dev_list)
list_is_singular(list) == Len(list) = 1

\* the device record exynos_tmu_probe leaves when it fails at step fail
\* (err_thermal unregisters the sensor; the devres of a failed probe are
\* released by the driver core)
ProbeDev(r, fail) ==
    [r EXCEPT
        !.state = IF fail = "none" THEN "bound" ELSE "failed",
        !.remote_sensors = StepDone(fail, "alloc_remote"),
        !.cool_dev = r.id \in {0, 1}
                     /\ (StepDone(fail, "cooling_register")
                         \/ fail = "cooling_register"),
        !.pm_qos = r.hotplug_enable /\ StepDone(fail, "pm_qos_add"),
        !.tzd = fail = "none",
        !.irq = fail = "none",
        !.depth = 0,
        !.inten = StepDone(fail, "tmu_control"),
        !.pend = IF StepDone(fail, "tmu_initialize") THEN FALSE ELSE r.pend]

exynos_tmu_probe(d, fail) ==
    /\ dev[d].state = "unbound"
    /\ dev' = [dev EXCEPT ![d] = ProbeDev(dev[d], fail)]
    /\ LET list == IF StepDone(fail, "list_add")
                   THEN Append(dtm_dev_list, d) ELSE dtm_dev_list
       IN  /\ dtm_dev_list' = list
           /\ pm_notifier' =
                 IF StepDone(fail, "register_notifier") /\ list_is_singular(list)
                 THEN pm_notifier + 1 ELSE pm_notifier
           /\ life_ret' = [op |-> "probe", dev |-> d, ret |-> ProbeRet(fail),
                           trace |-> ProbeTrace(fail, 1), stale |-> FALSE,
                           before |-> dtm_dev_list]
    /\ UNCHANGED <<lifeRest, suspended, pm_phase>>

\* the traversal of exynos_tmu_remove: list_for_each_entry with list_del
\* of the first node whose id matches.  list_del poisons the links of the
\* node it unlinks, and the loop then advances through them (stale).
RECURSIVE ListWalkDel(_, _, _, _)
ListWalkDel(list, i, ids, id) ==
    IF i > Len(list) THEN [list |-> list, stale |-> FALSE]
    ELSE IF ids[list[i]] = id
    THEN [list |-> SubSeq(list, 1, i - 1) \o SubSeq(list, i + 1, Len(list)),
          stale |-> TRUE]
    ELSE ListWalkDel(list, i + 1, ids, id)

\* what following the poisoned links of an unlinked node can do: the access
\* faults and the thread dies inside remove holding data->lock (oops), or
\* it reads something that ends the loop (returns)
StaleOutcomes == {"oops", "returns"}

\* exynos_tmu_remove; after it returns the driver core releases the devres
\* of the device (the interrupt of devm_request_irq among them)
exynos_tmu_remove(d, outcome) ==
    /\ dev[d].state = "bound"
    /\ LET walk == ListWalkDel(dtm_dev_list, 1, [x \in Devices |-> dev[x].id],
                               dev[d].id)
           returns == ~walk.stale \/ outcome = "returns"
       IN  /\ walk.stale \/ outcome = "returns"
           /\ pm_notifier' = IF list_is_singular(dtm_dev_list) /\ pm_notifier > 0
                             THEN pm_notifier - 1 ELSE pm_notifier
           /\ dtm_dev_list' = walk.list
           /\ dev' = [dev EXCEPT ![d] =
                        [@ EXCEPT !.state = IF returns THEN "removed" ELSE "oops",
                                  !.tzd = FALSE,
                                  !.inten = FALSE,
                                  !.irq = IF returns THEN FALSE ELSE @]]
           /\ life_ret' = [op |-> "remove", dev |-> d,
                           ret |-> IF returns THEN "0" ELSE "oops",
                           trace |-> <<"inten_off">>, stale |-> walk.stale,
                           before |-> dtm_dev_list]
    /\ UNCHANGED <<lifeRest, suspended, pm_phase>>

\* observation of a lifecycle step that is not probe or remove
LifeObs(op, d, ret, trace) ==
    [op |-> op, dev |-> d, ret |-> ret, trace |-> trace, stale |-> FALSE,
     before |-> dtm_dev_list]

\* the hardware raises a pending bit of a device whose interrupts are enabled
HwTrip(d) ==
    /\ dev[d].inten /\ ~dev[d].pend
    /\ dev' = [dev EXCEPT ![d].pend = TRUE]
    /\ UNCHANGED <<lifeRest, dtm_dev_list, pm_notifier, suspended, pm_phase, life_ret>>

\* mutant: the handler schedules the work without masking the line
exynos_tmu_irq_NoDisable(d) ==
    /\ dev[d].irq /\ dev[d].depth = 0 /\ dev[d].inten /\ dev[d].pend
    /\ dev' = [dev EXCEPT ![d].pending = TRUE]
    /\ UNCHANGED <<lifeRest, dtm_dev_list, pm_notifier, suspended, pm_phase, life_ret>>

\* exynos_tmu_irq: runs when the line is asserted, unmasked and has the
\* handler installed; disable_irq_nosync, schedule_work
exynos_tmu_irq(d) ==
    /\ dev[d].irq /\ dev[d].depth = 0 /\ dev[d].inten /\ dev[d].pend
    /\ dev' = [dev EXCEPT ![d].depth = @ + 1, ![d].pending = TRUE]
    /\ UNCHANGED <<lifeRest, dtm_dev_list, pm_notifier, suspended, pm_phase, life_ret>>

\* the workqueue takes irq_work off the queue and calls exynos_tmu_work;
\* a work item never runs on two CPUs at once
WorkStart(d) ==
    /\ dev[d].pending /\ dev[d].pc = "idle"
    /\ dev' = [dev EXCEPT ![d].pending = FALSE, ![d].pc = "report",
                          ![d].wtrace = <<>>]
    /\ UNCHANGED <<lifeRest, dtm_dev_list, pm_notifier, suspended, pm_phase, life_ret>>

\* exynos_tmu_work: exynos_report_trigger
WorkReport(d) ==
    /\ dev[d].pc = "report"
    /\ dev' = [dev EXCEPT ![d].pc = "clear", ![d].wtrace = Append(@, "uevent")]
    /\ UNCHANGED <<lifeRest, dtm_dev_list, pm_notifier, suspended, pm_phase, life_ret>>

\* exynos_tmu_work: tmu_clear_irqs under data->lock (held for ever by a
\* remove that died)
WorkClear(d) ==
    /\ dev[d].pc = "clear" /\ dev[d].state # "oops"
    /\ dev' = [dev EXCEPT ![d].pc = "enable", ![d].pend = FALSE,
                          ![d].wtrace = Append(@, "clear_irqs")]
    /\ UNCHANGED <<lifeRest, dtm_dev_list, pm_notifier, suspended, pm_phase, life_ret>>

\* mutant: the work returns without enable_irq
WorkEnable_NoEnable(d) ==
    /\ dev[d].pc = "enable"
    /\ dev' = [dev EXCEPT ![d].pc = "idle", ![d].wtrace = <<>>]
    /\ life_ret' = LifeObs("work", d, "0", dev[d].wtrace)
    /\ UNCHANGED <<lifeRest, dtm_dev_list, pm_notifier, suspended, pm_phase>>

\* exynos_tmu_work: enable_irq, the last step
WorkEnable(d) ==
    /\ dev[d].pc = "enable"
    /\ dev' = [dev EXCEPT ![d].pc = "idle",
                          ![d].depth = IF @ > 0 THEN @ - 1 ELSE 0,
                          ![d].wtrace = <<>>]
    /\ life_ret' = LifeObs("work", d, "0", Append(dev[d].wtrace, "unmask"))
    /\ UNCHANGED <<lifeRest, dtm_dev_list, pm_notifier, suspended, pm_phase>>

\* exynos_tmu_suspend: exynos_tmu_control(pdev, false)
exynos_tmu_suspend(d) ==
    /\ dev[d].state = "bound" /\ ~dev[d].asleep
    /\ dev' = [dev EXCEPT ![d].asleep = TRUE, ![d].inten = FALSE]
    /\ life_ret' = LifeObs("suspend", d, "0", <<"inten_off">>)
    /\ UNCHANGED <<lifeRest, dtm_dev_list, pm_notifier, suspended, pm_phase>>

\* the hardware-facing calls of exynos_tmu_resume, in the order it makes them
ResumeSteps == << "tmu_initialize", "tmu_control" >>

\* exynos_tmu_resume: exynos_tmu_initialize, exynos_tmu_control(pdev, true)
exynos_tmu_resume(d) ==
    /\ dev[d].state = "bound" /\ dev[d].asleep
    /\ dev' = [dev EXCEPT ![d].asleep = FALSE, ![d].pend = FALSE,
                          ![d].inten = TRUE]
    /\ life_ret' = LifeObs("resume", d, "0",
                           StepTrace(ResumeSteps[1]) \o StepTrace(ResumeSteps[2]))
    /\ UNCHANGED <<lifeRest, dtm_dev_list, pm_notifier, suspended, pm_phase>>

\* the devices exynos_pm_notifier hands the flag to on PM_SUSPEND_PREPARE
NotifiedDevices ==
    SelectSeq(dtm_dev_list, LAMBDA x : dev[x].cool_dev /\ dev[x].id # 1)

\* mutant: the flag is not lowered after the suspend
exynos_pm_notifier_KeepsFlag(event) ==
    CASE event = "PM_SUSPEND_PREPARE" -> TRUE
      [] OTHER -> suspended

\* exynos_pm_notifier: the value it leaves in suspended
exynos_pm_notifier(event) ==
    CASE event = "PM_SUSPEND_PREPARE" -> TRUE
      [] event = "PM_POST_SUSPEND" -> FALSE
      [] OTHER -> suspended

\* cdev->ops->set_cur_temp(cdev, is_suspended, ...) as it appears in a trace
SetCurTemp(is_suspended) ==
    IF is_suspended THEN "set_cur_temp(true)" ELSE "set_cur_temp(false)"

\* the PM core starts or ends a system suspend and calls the notifiers that
\* are on its chain
PmEvent(event) ==
    /\ \/ event = "PM_SUSPEND_PREPARE" /\ pm_phase = "running"
       \/ event = "PM_POST_SUSPEND" /\ pm_phase = "suspending"
    /\ pm_phase' = IF event = "PM_SUSPEND_PREPARE" THEN "suspending" ELSE "running"
    /\ suspended' = IF pm_notifier > 0 THEN exynos_pm_notifier(event) ELSE suspended
    /\ life_ret' = LifeObs(event, 0,
                           IF pm_notifier > 0 THEN "NOTIFY_OK" ELSE "not_called",
                           IF pm_notifier > 0 /\ event = "PM_SUSPEND_PREPARE"
                           THEN [i \in 1..Len(NotifiedDevices) |-> SetCurTemp(TRUE)]
                           ELSE <<>>)
    /\ UNCHANGED <<lifeRest, dev, dtm_dev_list, pm_notifier>>

\* mutant: the report does not look at the suspended flag
exynos_get_temp_NoFlag(d) ==
    /\ dev[d].state = "bound"
    /\ life_ret' = LifeObs("get_temp", d, "0",
                           IF dev[d].cool_dev /\ dev[d].id # 1
                           THEN <<SetCurTemp(FALSE)>> ELSE <<>>)
    /\ UNCHANGED <<lifeRest, dev, dtm_dev_list, pm_notifier, suspended, pm_phase>>

\* exynos_get_temp: reads the sensor under data->lock, then under
\* thermal_suspend_lock hands the suspended flag to the cooling device
exynos_get_temp(d) ==
    /\ dev[d].state = "bound"
    /\ life_ret' = LifeObs("get_temp", d, "0",
                           IF dev[d].cool_dev /\ dev[d].id # 1
                           THEN <<SetCurTemp(suspended)>> ELSE <<>>)
    /\ UNCHANGED <<lifeRest, dev, dtm_dev_list, pm_notifier, suspended, pm_phase>>

\* The end of exynos_tmu_probe and exynos_tmu_remove step by step, as two
\* threads working on different devices interleave them.  list_add_tail and
\* the list walk run under the device's own data->lock, which no other
\* device's thread takes; list_is_singular and (un)register_pm_notifier run
\* under no lock.

\* list_add_tail(&data->node, &dtm_dev_list), after everything before it in
\* the probe succeeded
ProbeListAdd(d) ==
    /\ dev[d].state = "unbound"
    /\ dev' = [dev EXCEPT ![d] = [ProbeDev(dev[d], "none") EXCEPT
                                     !.state = "probe_added"]]
    /\ dtm_dev_list' = Append(dtm_dev_list, d)
    /\ UNCHANGED <<lifeRest, pm_notifier, suspended, pm_phase, life_ret>>

\* if (list_is_singular(&dtm_dev_list)) of the probe
ProbeSingularTest(d) ==
    /\ dev[d].state = "probe_added"
    /\ dev' = [dev EXCEPT ![d].state = IF list_is_singular(dtm_dev_list)
                                       THEN "probe_register" ELSE "bound"]
    /\ UNCHANGED <<lifeRest, dtm_dev_list, pm_notifier, suspended, pm_phase,
                   life_ret>>

\* register_pm_notifier(&exynos_tmu_pm_notifier), and the probe returns
ProbeRegister(d) ==
    /\ dev[d].state = "probe_register"
    /\ pm_notifier' = pm_notifier + 1
    /\ dev' = [dev EXCEPT ![d].state = "bound"]
    /\ UNCHANGED <<lifeRest, dtm_dev_list, suspended, pm_phase, life_ret>>

\* if (list_is_singular(&dtm_dev_list)) of the remove
RemoveSingularTest(d) ==
    /\ dev[d].state = "bound"
    /\ dev' = [dev EXCEPT ![d].state = IF list_is_singular(dtm_dev_list)
                                       THEN "remove_unregister"
                                       ELSE "remove_unlink"]
    /\ UNCHANGED <<lifeRest, dtm_dev_list, pm_notifier, suspended, pm_phase,
                   life_ret>>

\* unregister_pm_notifier(&exynos_tmu_pm_notifier)
RemoveUnregister(d) ==
    /\ dev[d].state = "remove_unregister"
    /\ pm_notifier' = IF pm_notifier > 0 THEN pm_notifier - 1 ELSE pm_notifier
    /\ dev' = [dev EXCEPT ![d].state = "remove_unlink"]
    /\ UNCHANGED <<lifeRest, dtm_dev_list, suspended, pm_phase, life_ret>>

\* the rest of the remove: sensor unregister, exynos_tmu_control(off) and
\* the list walk with list_del
RemoveUnlink(d, outcome) ==
    /\ dev[d].state = "remove_unlink"
    /\ LET walk == ListWalkDel(dtm_dev_list, 1, [x \in Devices |-> dev[x].id],
                               dev[d].id)
           returns == ~walk.stale \/ outcome = "returns"
       IN  /\ walk.stale \/ outcome = "returns"
           /\ dtm_dev_list' = walk.list
           /\ dev' = [dev EXCEPT ![d] =
                        [@ EXCEPT !.state = IF returns THEN "removed" ELSE "oops",
                                  !.tzd = FALSE,
                                  !.inten = FALSE,
                                  !.irq = IF returns THEN FALSE ELSE @]]
    /\ UNCHANGED <<lifeRest, pm_notifier, suspended, pm_phase, life_ret>>

---------------------------------------------------------------------------
(* exynos-pm.c: the LPA notifier chain and the suspend cycle               *)

\* include/linux/notifier.h: what a listener returns
NOTIFY_DONE == 0
NOTIFY_OK == 1
NOTIFY_STOP_MASK == 32768
NOTIFY_BAD == NOTIFY_STOP_MASK + 2
NOTIFY_STOP == NOTIFY_STOP_MASK + NOTIFY_OK

\* notifier_to_errno: the stop bit is dropped, NOTIFY_OK - ret is the errno
notifier_to_errno(ret) ==
    LET r == ret % NOTIFY_STOP_MASK
    IN  IF r > NOTIFY_OK THEN NOTIFY_OK - r ELSE 0

\* what the listeners return for an event: the chain holds the answers to
\* LPA_ENTER; LPA_ENTER_FAIL is answered with NOTIFY_OK
ListenerReturns(chain, event) ==
    [i \in DOMAIN chain |-> IF event = "LPA_ENTER" THEN chain[i] ELSE NOTIFY_OK]

\* notifier_call_chain: calls listeners from nb on while nr_to_call is not
\* zero, counts each call into *nr_calls (which it does not reset), and
\* stops after a listener whose return has the stop bit
RECURSIVE notifier_call_chain(_, _, _, _, _, _)
notifier_call_chain(rets, nb, nr_to_call, nr_calls, called, ret) ==
    IF nb > Len(rets) \/ nr_to_call = 0
    THEN [ret |-> ret, nr_calls |-> nr_calls, called |-> called]
    ELSE IF rets[nb] >= NOTIFY_STOP_MASK
    THEN [ret |-> rets[nb], nr_calls |-> nr_calls + 1,
          called |-> Append(called, nb)]
    ELSE notifier_call_chain(rets, nb + 1, nr_to_call - 1, nr_calls + 1,
                             Append(called, nb), rets[nb])

\* exynos_pm_notify
exynos_pm_notify(chain, event, nr_to_call, nr_calls) ==
    LET r == notifier_call_chain(ListenerReturns(chain, event), 1, nr_to_call,
                                 nr_calls, <<>>, NOTIFY_DONE)
    IN  [ret |-> notifier_to_errno(r.ret), nr_calls |-> r.nr_calls,
         called |-> r.called]

MaxListeners == 3       \* listeners on exynos_pm_notifier_chain

\* values the stack slot of the local nr_calls can hold when
\* exynos_pm_lpa_enter is entered: it is declared without an initializer
StackValues == {-2, 0, 1}

\* exynos_pm_register_notifier: a listener of the default priority goes to
\* the tail of the chain
exynos_pm_register_notifier(answer) ==
    /\ Len(exynos_pm_notifier_chain) < MaxListeners
    /\ exynos_pm_notifier_chain' = Append(exynos_pm_notifier_chain, answer)
    /\ UNCHANGED <<lpa_ret, pm_info, pm_dbg, pm_cycle>>
    /\ UNCHANGED <<tmuVars, lifeVars, emulVars, pwmVars, trigVars, workVars,
                   ctlVars, chipVars>>

\* exynos_pm_unregister_notifier
exynos_pm_unregister_notifier(i) ==
    /\ i \in DOMAIN exynos_pm_notifier_chain
    /\ exynos_pm_notifier_chain' =
          [j \in 1..(Len(exynos_pm_notifier_chain) - 1) |->
              IF j < i THEN exynos_pm_notifier_chain[j]
              ELSE exynos_pm_notifier_chain[j + 1]]
    /\ UNCHANGED <<lpa_ret, pm_info, pm_dbg, pm_cycle>>
    /\ UNCHANGED <<tmuVars, lifeVars, emulVars, pwmVars, trigVars, workVars,
                   ctlVars, chipVars>>

\* exynos_pm_lpa_enter, under the read lock of the chain; stack is what the
\* local nr_calls holds before the first exynos_pm_notify counts into it
exynos_pm_lpa_enter(stack) ==
    LET e == exynos_pm_notify(exynos_pm_notifier_chain, "LPA_ENTER", -1, stack)
        f == IF e.ret # 0
             THEN exynos_pm_notify(exynos_pm_notifier_chain, "LPA_ENTER_FAIL",
                                   e.nr_calls - 1, 0).called
             ELSE <<>>
    IN  /\ lpa_ret' = [called |-> TRUE, ret |-> e.ret, enter |-> e.called,
                       fail |-> f, chain |-> exynos_pm_notifier_chain]
        /\ UNCHANGED <<exynos_pm_notifier_chain, pm_info, pm_dbg, pm_cycle>>
        /\ UNCHANGED <<tmuVars, lifeVars, emulVars, pwmVars, trigVars, workVars,
                       ctlVars, chipVars>>

\* the scenario test of the three suspend-cycle functions
IsCpCallScenario == pm_info.is_cp_call \/ pm_dbg.test_cp_call # 0

\* exynos_pm_syscore_suspend; cp_status is exynos_check_cp_status(), aud is
\* is_cp_aud_enabled()
exynos_pm_syscore_suspend(cp_status, aud) ==
    /\ pm_cycle.step = "idle"
    /\ IF ~cp_status
       THEN /\ pm_cycle' = [pm_cycle EXCEPT !.ret = "EINVAL"]
            /\ UNCHANGED pm_info
       ELSE /\ pm_info' = [pm_info EXCEPT !.is_cp_call = aud]
            /\ pm_cycle' =
                 [step |-> "suspended", ret |-> "0", written |-> FALSE,
                  prepare |-> IF aud \/ pm_dbg.test_cp_call # 0
                              THEN pm_info.cp_call_mode_idx
                              ELSE pm_info.suspend_mode_idx,
                  psci |-> -1, wakeup |-> -1]
    /\ UNCHANGED <<exynos_pm_notifier_chain, lpa_ret, pm_dbg>>
    /\ UNCHANGED <<tmuVars, lifeVars, emulVars, pwmVars, trigVars, workVars,
                   ctlVars, chipVars>>

\* exynos_pm_enter; early is what arm_cpuidle_suspend returns
exynos_pm_enter(early) ==
    /\ pm_cycle.step = "suspended"
    /\ pm_cycle' = [pm_cycle EXCEPT !.step = "entered",
                       !.psci = IF IsCpCallScenario
                                THEN pm_info.cp_call_psci_idx
                                ELSE pm_info.suspend_psci_idx]
    /\ pm_info' = [pm_info EXCEPT !.is_early_wakeup = early]
    /\ UNCHANGED <<exynos_pm_notifier_chain, lpa_ret, pm_dbg>>
    /\ UNCHANGED <<tmuVars, lifeVars, emulVars, pwmVars, trigVars, workVars,
                   ctlVars, chipVars>>

\* mutant: the resume always wakes the suspend scenario's power mode
exynos_pm_syscore_resume_SuspendMode ==
    /\ pm_cycle.step = "entered"
    /\ pm_cycle' = [pm_cycle EXCEPT !.step = "idle",
                       !.wakeup = pm_info.suspend_mode_idx]
    /\ UNCHANGED <<exynos_pm_notifier_chain, lpa_ret, pm_info, pm_dbg>>
    /\ UNCHANGED <<tmuVars, lifeVars, emulVars, pwmVars, trigVars, workVars,
                   ctlVars, chipVars>>

\* exynos_pm_syscore_resume
exynos_pm_syscore_resume ==
    /\ pm_cycle.step = "entered"
    /\ pm_cycle' = [pm_cycle EXCEPT !.step = "idle",
                       !.wakeup = IF IsCpCallScenario
                                  THEN pm_info.cp_call_mode_idx
                                  ELSE pm_info.suspend_mode_idx]
    /\ UNCHANGED <<exynos_pm_notifier_chain, lpa_ret, pm_info, pm_dbg>>
    /\ UNCHANGED <<tmuVars, lifeVars, emulVars, pwmVars, trigVars, workVars,
                   ctlVars, chipVars>>

\* a write to the debugfs file test_cp_call (debugfs_create_u32): nothing
\* in this file orders it against the three functions above
DebugfsWriteTestCpCall(v) ==
    /\ pm_dbg' = [pm_dbg EXCEPT !.test_cp_call = v]
    /\ pm_cycle' = IF pm_cycle.step # "idle" /\ v # pm_dbg.test_cp_call
                   THEN [pm_cycle EXCEPT !.written = TRUE]
                   ELSE pm_cycle
    /\ UNCHANGED <<exynos_pm_notifier_chain, lpa_ret, pm_info>>
    /\ UNCHANGED <<tmuVars, lifeVars, emulVars, pwmVars, trigVars, workVars,
                   ctlVars, chipVars>>

\* what exynos_pm_drvinit reads from the device tree: suspend_mode_idx,
\* suspend_psci_idx, cp_call_mode_idx, cp_call_psci_idx
InitPmWith(dt) ==
    /\ exynos_pm_notifier_chain = <<>>
    /\ lpa_ret = [called |-> FALSE, ret |-> 0, enter |-> <<>>, fail |-> <<>>,
                  chain |-> <<>>]
    /\ pm_info = [is_cp_call |-> FALSE, is_early_wakeup |-> FALSE,
                  suspend_mode_idx |-> dt[1], suspend_psci_idx |-> dt[2],
                  cp_call_mode_idx |-> dt[3], cp_call_psci_idx |-> dt[4]]
    /\ pm_dbg = [test_cp_call |-> 0]
    /\ pm_cycle = [step |-> "idle", ret |-> "0", written |-> FALSE,
                   prepare |-> -1, psci |-> -1, wakeup |-> -1]

InitPmIdle == InitPmWith(<<8, 1024, 4, 128>>)

\* no device bound, nothing registered
InitLifeWith(ids, hotplug, pend) ==
    /\ dev = [d \in Devices |-> [UnboundDev(ids[d], hotplug) EXCEPT !.pend = pend]]
    /\ dtm_dev_list = <<>>
    /\ pm_notifier = 0
    /\ suspended = FALSE
    /\ pm_phase = "running"
    /\ life_ret = [op |-> "none", dev |-> 0, ret |-> "0", trace |-> <<>>,
                   stale |-> FALSE, before |-> <<>>]

InitExt ==
    /\ InitLifeWith([d \in Devices |-> d - 1], FALSE, FALSE)
    /\ InitEmulWith(U32(0))
    /\ InitPwmIdle
    /\ InitTrigWith(FALSE)
    /\ InitWorkIdle
    /\ InitPmIdle
    /\ InitChipIdle
    /\ InitCtlIdle

---------------------------------------------------------------------------
(* Initial states: the device as exynos_tmu_probe leaves it after          *)
(* devm_kzalloc and exynos_map_dt_data, and the hardware at reset          *)

SocTypes == {"EXYNOS8890", "EXYNOS8895"}
Governors == {"step_wise", "power_allocator"}
SensingModes == {"AVG", "MAX", "MIN", "FIRST"}
ThdOffsets == {0, 4, 8, 12} \cup {EXYNOS_THD_TEMP_R_OFFSET + o : o \in {0, 4, 8, 12}}

\* a TRIMINFO value: calibration select bit, 85-degree code, 25-degree code
MakeTrim(calbit, e1, e2) ==
    calbit * Pow2(EXYNOS_TMU_CALIB_SEL_SHIFT)
    + e2 * Pow2(EXYNOS_TMU_TRIMINFO_85_P0_SHIFT) + e1

\* samsung,tmu_efuse_value of the device tree
EfuseSamples == {0, MakeTrim(0, 75, 148)}

\* trim codes the fuses may hold (0 = not fused)
CalTrimCodes == {0, 5, 100, 160, 190, 511}

\* thermal-zone trip tables (temperature, hysteresis in milli-Celsius)
TripTables ==
    { <<>>,
      <<[temp |-> 20000, hyst |-> 30000], [temp |-> 95000, hyst |-> 5000]>>,
      <<[temp |-> -5000, hyst |-> 0], [temp |-> 130000, hyst |-> 10000],
        [temp |-> 300000, hyst |-> 2000]>>,
      [i \in 1..8 |-> [temp |-> 35000 + 10000 * i, hyst |-> 5000]] }

\* contents of the threshold registers before the driver touches them
RegSamples == { U32(0), [hi |-> 65535, lo |-> 65535], [hi |-> 511, lo |-> 65024] }

\* hotplug_in_threshold, hotplug_out_threshold of the device tree
HotplugConfigs == { <<70, 85>>, <<70000, 85000>>, <<85, 70>>, <<80, 80>> }

\* temperatures (milli-Celsius) handed to exynos_throttle_cpu_hotplug
ReportTemps == {-500, 69000, 69999, 70000, 72000, 75000, 84999, 85000, 86000,
                86000000}

\* exynos_map_dt_data on the "sensors" property: only a missing property
\* is refused (prop is <<>> when the property is absent, <<value>> otherwise)
exynos_map_dt_sensors(prop) ==
    IF prop = <<>> THEN [ret |-> "ENODEV", sensors |-> 0]
    ELSE [ret |-> "0", sensors |-> prop[1]]

\* the sensor masks a probed device can hold
ProbedMasks(props) ==
    {exynos_map_dt_sensors(q).sensors :
        q \in {x \in props : exynos_map_dt_sensors(x).ret = "0"}}

InitPdata(efuse, dtcal) ==
    [cal_type |-> dtcal, efuse_value |-> efuse, first_point_trim |-> 25,
     second_point_trim |-> 85, default_temp_offset |-> 50]

InitData(mask, mode, hp) ==
    [sensors |-> mask, sensing_mode |-> mode,
     temp_error1 |-> 0, temp_error2 |-> 0,
     remote_sensors |-> [i \in 0..(NumOfRemotes(mask) - 1) |->
                            [cal_type |-> 0, temp_error1 |-> 0, temp_error2 |-> 0]],
     oob |-> {},
     hotplug_in_threshold |-> hp[1], hotplug_out_threshold |-> hp[2]]

InitObs ==
    /\ init_ret = [runs |-> 0, log |-> <<>>, ret |-> 0]
    /\ conv = [applied |-> FALSE, temp |-> 0, code |-> 0, div0 |-> FALSE, back |-> 0]
    /\ read_ret = [called |-> FALSE, div0 |-> FALSE, result |-> 0]
    /\ hp_ret = [called |-> FALSE, temp |-> 0, was_out |-> FALSE, request |-> "none"]

PendOffsets == {PendReg(i) : i \in 0..(TOTAL_SENSORS - 1)}

InitHw(p) ==
    /\ CURRENT_TEMP = PackCurrentTemp(p)
    /\ INTPEND = [o \in PendOffsets |-> 0]

InitHotplug ==
    /\ is_cpu_hotplugged_out = FALSE
    /\ thermal_cpu_hotplug_request = "PM_QOS_CPU_ONLINE_MAX_DEFAULT_VALUE"
    /\ cpufreq_state = 0

\* threshold programming: both variants, several masks, trip tables,
\* calibrations and register contents
Init ==
    /\ soc \in SocTypes
    /\ \E mask \in {0, 1, 6, 131} :
          data = InitData(mask, "AVG", <<70, 85>>)
    /\ \E efuse \in EfuseSamples :
          pdata = InitPdata(efuse, TYPE_ONE_POINT_TRIMMING)
    /\ \E g \in Governors, t \in TripTables :
          tz = [governor_name |-> g, trips |-> t]
    /\ \E tr \in {MakeTrim(0, 100, 160), MakeTrim(1, 100, 160),
                  MakeTrim(1, 5, 300), MakeTrim(1, 0, 0)} :
          TRIMINFO = [i \in 0..(TOTAL_SENSORS - 1) |-> tr]
    /\ \E r \in RegSamples :
          /\ THD_RISE = [o \in ThdOffsets |-> r]
          /\ THD_FALL = [o \in ThdOffsets |-> r]
    /\ InitHw(0)
    /\ InitHotplug
    /\ InitObs
    /\ InitExt

Next ==
    \/ TmuInitialize
    \/ PowerDownReset

Spec == Init /\ [][Next]_vars

\* calibration: the fuse values and calibration types initialization meets
InitCal ==
    /\ soc \in SocTypes
    /\ \E mask \in {1, 2} :
          /\ (soc = "EXYNOS8890" => mask = 1)
          /\ data = InitData(mask, "AVG", <<70, 85>>)
    /\ \E efuse \in EfuseSamples, dtcal \in {TYPE_ONE_POINT_TRIMMING, 2} :
          pdata = InitPdata(efuse, dtcal)
    /\ tz = [governor_name |-> "step_wise", trips |-> <<>>]
    /\ \E calbit \in {0, 1}, e1 \in CalTrimCodes, e2 \in CalTrimCodes :
          TRIMINFO = [i \in 0..(TOTAL_SENSORS - 1) |-> MakeTrim(calbit, e1, e2)]
    /\ THD_RISE = [o \in ThdOffsets |-> U32(0)]
    /\ THD_FALL = [o \in ThdOffsets |-> U32(0)]
    /\ InitHw(0)
    /\ InitHotplug
    /\ InitObs
    /\ InitExt

NextCal ==
    \/ TmuInitialize
    \/ \E temp \in EXYNOS_MIN_TEMP..EXYNOS_MAX_TEMP : ApplyConversion(temp)

SpecCal == InitCal /\ [][NextCal]_vars

\* emulation: the calibrations of InitCal and every sampled register content
InitEmul ==
    /\ soc \in SocTypes
    /\ \E mask \in {1, 2} :
          /\ (soc = "EXYNOS8890" => mask = 1)
          /\ data = InitData(mask, "AVG", <<70, 85>>)
    /\ \E efuse \in EfuseSamples, dtcal \in {TYPE_ONE_POINT_TRIMMING, 2} :
          pdata = InitPdata(efuse, dtcal)
    /\ tz = [governor_name |-> "step_wise", trips |-> <<>>]
    /\ \E calbit \in {0, 1}, e1 \in CalTrimCodes, e2 \in CalTrimCodes :
          TRIMINFO = [i \in 0..(TOTAL_SENSORS - 1) |-> MakeTrim(calbit, e1, e2)]
    /\ THD_RISE = [o \in ThdOffsets |-> U32(0)]
    /\ THD_FALL = [o \in ThdOffsets |-> U32(0)]
    /\ InitHw(0)
    /\ InitHotplug
    /\ InitObs
    /\ InitLifeWith([d \in Devices |-> d - 1], FALSE, FALSE)
    /\ \E val \in EmulConSamples : InitEmulWith(val)
    /\ InitPwmIdle
    /\ InitTrigWith(FALSE)
    /\ InitWorkIdle
    /\ InitPmIdle
    /\ InitChipIdle
    /\ InitCtlIdle

NextEmul ==
    \/ TmuInitialize
    \/ \E temp \in EmulTemps : exynos_tmu_set_emulation(temp)

SpecEmul == InitEmul /\ [][NextEmul]_vars

\* sensor read: every sensor bitmask and sensing mode
InitRead ==
    /\ soc \in SocTypes
    /\ \E mask \in ProbedMasks({<<>>} \cup {<<m>> : m \in 0..(Pow2(TOTAL_SENSORS) - 1)}),
          mode \in SensingModes :
          /\ (soc = "EXYNOS8890" => mask = 1)
          /\ data = InitData(mask, mode, <<70, 85>>)
    /\ pdata = InitPdata(0, TYPE_ONE_POINT_TRIMMING)
    /\ tz = [governor_name |-> "step_wise", trips |-> <<>>]
    /\ TRIMINFO = [i \in 0..(TOTAL_SENSORS - 1) |-> MakeTrim(0, 100, 160)]
    /\ THD_RISE = [o \in ThdOffsets |-> U32(0)]
    /\ THD_FALL = [o \in ThdOffsets |-> U32(0)]
    /\ \E p \in 0..MaxPattern : InitHw(p)
    /\ InitHotplug
    /\ InitObs
    /\ InitExt

NextRead ==
    \/ exynos8895_tmu_read
    \/ exynos8890_tmu_read
    \/ \E p \in 0..MaxPattern : SensorSample(p)

SpecRead == InitRead /\ [][NextRead]_vars

\* hotplug policy: threshold pairs of the device tree, temperature reports
InitHp ==
    /\ soc \in SocTypes
    /\ \E hp \in HotplugConfigs : data = InitData(1, "AVG", hp)
    /\ pdata = InitPdata(0, TYPE_ONE_POINT_TRIMMING)
    /\ tz = [governor_name |-> "step_wise", trips |-> <<>>]
    /\ TRIMINFO = [i \in 0..(TOTAL_SENSORS - 1) |-> MakeTrim(0, 100, 160)]
    /\ THD_RISE = [o \in ThdOffsets |-> U32(0)]
    /\ THD_FALL = [o \in ThdOffsets |-> U32(0)]
    /\ InitHw(0)
    /\ InitHotplug
    /\ InitObs
    /\ InitExt

NextHp ==
    \/ \E temp \in ReportTemps : exynos_throttle_cpu_hotplug(temp)
    \/ \E s \in 0..MaxCoolingState : CoolingSetState(s)

SpecHp == InitHp /\ [][NextHp]_vars

\* the single-device TMU state, parked
InitTmuIdle ==
    /\ soc = "EXYNOS8890"
    /\ data = InitData(1, "AVG", <<70, 85>>)
    /\ pdata = InitPdata(0, TYPE_ONE_POINT_TRIMMING)
    /\ tz = [governor_name |-> "step_wise", trips |-> <<>>]
    /\ TRIMINFO = [i \in 0..(TOTAL_SENSORS - 1) |-> MakeTrim(0, 100, 160)]
    /\ THD_RISE = [o \in ThdOffsets |-> U32(0)]
    /\ THD_FALL = [o \in ThdOffsets |-> U32(0)]
    /\ InitHw(0)
    /\ InitHotplug
    /\ InitObs
    /\ InitEmulWith(U32(0))

\* assignments of device-tree ids to the devices: pairwise distinct, all
\* equal, and the first differing from the rest
IdAssignments ==
    { [d \in Devices |-> d - 1], [d \in Devices |-> 0],
      [d \in Devices |-> IF d = 1 THEN 1 ELSE 0] }

\* registry, notifier and suspended flag: probes that succeed or fail,
\* removes, system suspends, the sleep hooks, get_temp and the trip handling
\* of the first device (the devices are alike)
InitLife ==
    /\ InitTmuIdle
    /\ InitPwmIdle
    /\ InitTrigWith(FALSE)
    /\ InitWorkIdle
    /\ InitPmIdle
    /\ InitChipIdle
    /\ InitCtlIdle
    /\ \E ids \in IdAssignments : InitLifeWith(ids, FALSE, FALSE)

NextLife ==
    \/ \E d \in Devices, fail \in {"sensor_register", "none"} :
          exynos_tmu_probe(d, fail)
    \/ \E d \in Devices, outcome \in StaleOutcomes : exynos_tmu_remove(d, outcome)
    \/ \E d \in Devices : exynos_tmu_suspend(d)
    \/ \E d \in Devices : exynos_tmu_resume(d)
    \/ \E event \in {"PM_SUSPEND_PREPARE", "PM_POST_SUSPEND"} : PmEvent(event)
    \/ \E d \in Devices : exynos_get_temp(d)
    \/ HwTrip(1) \/ exynos_tmu_irq(1)
    \/ WorkStart(1) \/ WorkReport(1) \/ WorkClear(1) \/ WorkEnable(1)

SpecLife == InitLife /\ [][NextLife]_vars

\* probe failing at each of its steps, and the remove of a probed device
InitProbe ==
    /\ InitTmuIdle
    /\ InitPwmIdle
    /\ InitTrigWith(FALSE)
    /\ InitWorkIdle
    /\ InitPmIdle
    /\ InitChipIdle
    /\ InitCtlIdle
    /\ \E ids \in IdAssignments, hotplug \in BOOLEAN, pend \in BOOLEAN :
          InitLifeWith(ids, hotplug, pend)

NextProbe ==
    \/ \E d \in Devices, fail \in ProbeFailPoints \cup {"none"} :
          exynos_tmu_probe(d, fail)
    \/ \E d \in Devices, outcome \in StaleOutcomes : exynos_tmu_remove(d, outcome)

SpecProbe == InitProbe /\ [][NextProbe]_vars

\* interrupt and deferred work against probe and remove: devices with
\* distinct ids, with and without pending bits at boot
InitIrq ==
    /\ InitTmuIdle
    /\ InitPwmIdle
    /\ InitTrigWith(FALSE)
    /\ InitWorkIdle
    /\ InitPmIdle
    /\ InitChipIdle
    /\ InitCtlIdle
    /\ \E pend \in BOOLEAN :
          InitLifeWith([d \in Devices |-> d - 1], FALSE, pend)

NextIrq ==
    \/ \E d \in Devices, fail \in {"request_irq", "none"} :
          exynos_tmu_probe(d, fail)
    \/ \E d \in Devices, outcome \in StaleOutcomes : exynos_tmu_remove(d, outcome)
    \/ \E d \in Devices : HwTrip(d)
    \/ \E d \in Devices : exynos_tmu_irq(d)
    \/ \E d \in Devices : WorkStart(d)
    \/ \E d \in Devices : WorkReport(d)
    \/ \E d \in Devices : WorkClear(d)
    \/ \E d \in Devices : WorkEnable(d)

SpecIrq == InitIrq /\ [][NextIrq]_vars

\* the paths that enable interrupts: probe, the resume hook and the
\* deferred work, on devices that stay bound
NextOrder ==
    \/ \E d \in Devices, fail \in {"request_irq", "none"} :
          exynos_tmu_probe(d, fail)
    \/ \E d \in Devices : HwTrip(d)
    \/ \E d \in Devices : exynos_tmu_irq(d)
    \/ \E d \in Devices : WorkStart(d)
    \/ \E d \in Devices : WorkReport(d)
    \/ \E d \in Devices : WorkClear(d)
    \/ \E d \in Devices : WorkEnable(d)
    \/ \E d \in Devices : exynos_tmu_suspend(d)
    \/ \E d \in Devices : exynos_tmu_resume(d)

SpecOrder == InitIrq /\ [][NextOrder]_vars

\* every device probed successfully, in the order of Devices
InitSched ==
    /\ InitTmuIdle
    /\ InitPwmIdle
    /\ InitTrigWith(FALSE)
    /\ InitWorkIdle
    /\ InitPmIdle
    /\ InitChipIdle
    /\ InitCtlIdle
    /\ dev = [d \in Devices |-> ProbeDev(UnboundDev(d - 1, FALSE), "none")]
    /\ dtm_dev_list = [d \in Devices |-> d]
    /\ pm_notifier = 1
    /\ suspended = FALSE
    /\ pm_phase = "running"
    /\ life_ret = [op |-> "probe", dev |-> NumDevs, ret |-> ProbeRet("none"),
                   trace |-> ProbeTrace("none", 1), stale |-> FALSE,
                   before |-> [d \in 1..(NumDevs - 1) |-> d]]

\* interrupts and their deferred handlers against get_temp and the sleep
\* hooks; the workqueue runs every queued work and exynos_tmu_work runs to
\* its end (data->lock is only held for the length of a register access)
NextSched ==
    \/ \E d \in Devices : HwTrip(d)
    \/ \E d \in Devices : exynos_tmu_irq(d)
    \/ \E d \in Devices : WorkStart(d)
    \/ \E d \in Devices : WorkReport(d)
    \/ \E d \in Devices : WorkClear(d)
    \/ \E d \in Devices : WorkEnable(d)
    \/ \E d \in Devices : exynos_tmu_suspend(d)
    \/ \E d \in Devices : exynos_tmu_resume(d)
    \/ \E d \in Devices : exynos_get_temp(d)

SpecSched ==
    /\ InitSched
    /\ [][NextSched]_vars
    /\ \A d \in Devices :
          WF_vars(WorkStart(d) \/ WorkReport(d) \/ WorkClear(d) \/ WorkEnable(d))

\* PWM: one requested channel of every variant, on every clock arrangement
InitPwm ==
    /\ InitTmuIdle
    /\ InitTrigWith(FALSE)
    /\ InitWorkIdle
    /\ InitPmIdle
    /\ InitChipIdle
    /\ InitCtlIdle
    /\ InitLifeWith([d \in Devices |-> d - 1], FALSE, FALSE)
    /\ \E v \in Variants, channel \in {0, 4}, parent_rate \in PwmParentRates,
          is_tdiv \in BOOLEAN, tin_rate \in PwmTinRates :
          /\ (is_tdiv => tin_rate = 0)
          /\ InitPwmWith(v, channel, parent_rate, is_tdiv, tin_rate)

NextPwm ==
    \/ \E period_ns \in PwmPeriods :
          \E duty_ns \in PwmDuties(period_ns) :
             pwm_samsung_config(duty_ns, period_ns)
    \/ pwm_samsung_enable
    \/ pwm_samsung_disable

SpecPwm == InitPwm /\ [][NextPwm]_vars

\* trip tables of a zone: those of TripTables, one with trips out of order
\* and one with two equal trips
TrigTripTables ==
    TripTables \cup
    { <<[temp |-> 95000, hyst |-> 5000], [temp |-> 20000, hyst |-> 5000],
        [temp |-> 110000, hyst |-> 5000]>>,
      <<[temp |-> 45000, hyst |-> 5000], [temp |-> 45000, hyst |-> 5000],
        [temp |-> 95000, hyst |-> 5000]>> }

\* zone temperatures (milli-Celsius) below, at and above the trips
TrigTemps ==
    {-10000, -5000, 0, 19999, 20000, 20001, 44999, 45000, 45001, 65000, 94999,
     95000, 95001, 110000, 115000, 130000, 300000, 300001}

\* trip report: every trip table, with and without a registered zone
InitTrig ==
    /\ soc = "EXYNOS8890"
    /\ data = InitData(1, "AVG", <<70, 85>>)
    /\ pdata = InitPdata(0, TYPE_ONE_POINT_TRIMMING)
    /\ \E t \in TrigTripTables : tz = [governor_name |-> "step_wise", trips |-> t]
    /\ TRIMINFO = [i \in 0..(TOTAL_SENSORS - 1) |-> MakeTrim(0, 100, 160)]
    /\ THD_RISE = [o \in ThdOffsets |-> U32(0)]
    /\ THD_FALL = [o \in ThdOffsets |-> U32(0)]
    /\ InitHw(0)
    /\ InitHotplug
    /\ InitObs
    /\ InitEmulWith(U32(0))
    /\ InitPwmIdle
    /\ InitLifeWith([d \in Devices |-> d - 1], FALSE, FALSE)
    /\ \E set \in BOOLEAN : InitTrigWith(set)
    /\ InitWorkIdle
    /\ InitPmIdle
    /\ InitChipIdle
    /\ InitCtlIdle

NextTrig == \E temp \in TrigTemps : exynos_report_trigger(temp)

SpecTrig == InitTrig /\ [][NextTrig]_vars

\* interrupt and deferred handler: both variants, several sensor masks,
\* with and without a zone
InitWork ==
    /\ soc \in SocTypes
    /\ \E mask \in {1, 3, 161} :
          /\ (soc = "EXYNOS8890" => mask = 1)
          /\ data = InitData(mask, "AVG", <<70, 85>>)
    /\ pdata = InitPdata(0, TYPE_ONE_POINT_TRIMMING)
    /\ tz = [governor_name |-> "step_wise",
             trips |-> <<[temp |-> 20000, hyst |-> 30000],
                         [temp |-> 95000, hyst |-> 5000]>>]
    /\ TRIMINFO = [i \in 0..(TOTAL_SENSORS - 1) |-> MakeTrim(0, 100, 160)]
    /\ THD_RISE = [o \in ThdOffsets |-> U32(0)]
    /\ THD_FALL = [o \in ThdOffsets |-> U32(0)]
    /\ InitHw(0)
    /\ InitHotplug
    /\ InitObs
    /\ InitEmulWith(U32(0))
    /\ InitPwmIdle
    /\ InitLifeWith([d \in Devices |-> d - 1], FALSE, FALSE)
    /\ \E set \in BOOLEAN : InitTrigWith(set)
    /\ InitWorkIdle
    /\ InitPmIdle
    /\ InitChipIdle
    /\ InitCtlIdle

NextWork ==
    \/ \E i \in 0..(TOTAL_SENSORS - 1) : HwPend(i)
    \/ TmuIrq
    \/ \E temp \in {19000, 20000, 96000} : exynos_tmu_work(temp)

SpecWork == InitWork /\ [][NextWork]_vars

\* concurrent probes and removes of different devices, and the PM core
\* calling the notifier
NextRace ==
    \/ \E d \in Devices : ProbeListAdd(d)
    \/ \E d \in Devices : ProbeSingularTest(d)
    \/ \E d \in Devices : ProbeRegister(d)
    \/ \E d \in Devices : RemoveSingularTest(d)
    \/ \E d \in Devices : RemoveUnregister(d)
    \/ \E d \in Devices, outcome \in StaleOutcomes : RemoveUnlink(d, outcome)
    \/ \E event \in {"PM_SUSPEND_PREPARE", "PM_POST_SUSPEND"} : PmEvent(event)

SpecRace == InitProbe /\ [][NextRace]_vars

\* interrupt-enable register contents the driver may find when it binds
IntenSamples == { U32(0), [hi |-> 3, lo |-> 3] }

\* probe, suspend and resume on the registers: both variants, sensor masks
\* with and without remote sensors, both governors, several trip tables,
\* and the registers as the driver finds them
InitCtl ==
    /\ soc \in SocTypes
    /\ \E mask \in {1, 3, 161} :
          data = InitData(mask, "AVG", <<70, 85>>)
    /\ pdata = InitPdata(0, TYPE_ONE_POINT_TRIMMING)
    /\ \E g \in Governors, t \in TripTables :
          tz = [governor_name |-> g, trips |-> t]
    /\ TRIMINFO = [i \in 0..(TOTAL_SENSORS - 1) |-> MakeTrim(0, 100, 160)]
    /\ \E r \in RegSamples :
          /\ THD_RISE = [o \in ThdOffsets |-> r]
          /\ THD_FALL = [o \in ThdOffsets |-> r]
    /\ InitHw(0)
    /\ InitHotplug
    /\ InitObs
    /\ InitLifeWith([d \in Devices |-> d - 1], FALSE, FALSE)
    /\ InitEmulWith(U32(0))
    /\ InitPwmIdle
    /\ InitTrigWith(FALSE)
    /\ InitWorkIdle
    /\ InitPmIdle
    /\ InitChipIdle
    /\ \E e \in IntenSamples : INTEN = [o \in IntenRegs |-> e]
    /\ \E on \in BOOLEAN : CONTROL = ControlCon(on)
    /\ tmu_state = "unbound"
    /\ ctl_ret = [op |-> "none", steps |-> <<>>,
                  before |-> CtlRegs(<<>>, <<>>, <<>>, ControlCon(FALSE)),
                  probed |-> CtlRegs(<<>>, <<>>, <<>>, ControlCon(FALSE)),
                  found |-> CtlRegs(<<>>, <<>>, <<>>, ControlCon(FALSE)),
                  reset |-> FALSE]

NextCtl ==
    \/ TmuProbe
    \/ TmuSuspend
    \/ TmuPowerDown
    \/ TmuResume

SpecCtl == InitCtl /\ [][NextCtl]_vars

---------------------------------------------------------------------------
(* Properties                                                              *)

Abs(x) == IF x < 0 THEN -x ELSE x

ActiveSensors == {i \in 0..(TOTAL_SENSORS - 1) : SensorActive(data.sensors, i)}

RECURSIVE SumCodes(_)
SumCodes(S) ==
    IF S = {} THEN 0
    ELSE LET i == CHOOSE x \in S : TRUE
         IN  HwSensorCode(CURRENT_TEMP, i) + SumCodes(S \ {i})

MaxCode(S) == CHOOSE c \in {HwSensorCode(CURRENT_TEMP, i) : i \in S} :
                 \A i \in S : HwSensorCode(CURRENT_TEMP, i) <= c
MinCode(S) == CHOOSE c \in {HwSensorCode(CURRENT_TEMP, i) : i \in S} :
                 \A i \in S : HwSensorCode(CURRENT_TEMP, i) >= c

Read8895Done == soc = "EXYNOS8895" /\ read_ret.called

\* C1, as stated: after initialization, for every calibration mode and every
\* temp in [EXYNOS_MIN_TEMP, EXYNOS_MAX_TEMP], code_to_temp(temp_to_code(temp))
\* differs from temp by at most 1 degree (stated where the round trip is
\* defined at all: the code is not negative and code_to_temp does not divide
\* by zero).
C1_RoundTripEveryCalibration ==
    (conv.applied /\ ~conv.div0 /\ conv.code >= 0)
        => Abs(conv.back - conv.temp) <= 1

\* the calibration has at least one code per degree in two-point mode
SlopeAtLeastOne ==
    pdata.cal_type = TYPE_TWO_POINT_TRIMMING =>
        Abs(data.temp_error2 - data.temp_error1)
            >= pdata.second_point_trim - pdata.first_point_trim

\* C1, amended: the round trip is within 1 degree whenever the code of temp
\* is not negative and, in two-point mode, the two fused codes are at least
\* as far apart as the two trim temperatures.
C1_RoundTripSteepCalibration ==
    (conv.applied /\ conv.code >= 0 /\ SlopeAtLeastOne) =>
        (~conv.div0 /\ Abs(conv.back - conv.temp) <= 1)

\* C1 witness: a two-point round trip that loses exactly one degree
C1_Witness ==
    /\ conv.applied /\ conv.code >= 0 /\ SlopeAtLeastOne
    /\ pdata.cal_type = TYPE_TWO_POINT_TRIMMING
    /\ conv.back = conv.temp - 1

\* C2: under AVG with a non-empty mask, exynos8895_tmu_read returns the
\* truncated quotient of the sum of the active sensors' codes by their
\* number; mask 0b111 with codes 10, 20, 30 gives 20.
C2_Average ==
    (Read8895Done /\ data.sensing_mode = "AVG" /\ data.sensors # 0) =>
        /\ ~read_ret.div0
        /\ read_ret.result = SumCodes(ActiveSensors) \div Cardinality(ActiveSensors)
        /\ (data.sensors = 7 /\ CURRENT_TEMP = PackCurrentTemp(0)
              => read_ret.result = 20)

C2_Witness ==
    /\ Read8895Done /\ data.sensing_mode = "AVG"
    /\ data.sensors = 7 /\ CURRENT_TEMP = PackCurrentTemp(0)
    /\ read_ret.result = 20

\* C3: under MAX with a non-empty mask, exynos8895_tmu_read returns the
\* largest code among the active sensors; mask 0b111 with codes 10, 20, 30
\* gives 30.
C3_Maximum ==
    (Read8895Done /\ data.sensing_mode = "MAX" /\ data.sensors # 0) =>
        /\ read_ret.result = MaxCode(ActiveSensors)
        /\ (data.sensors = 7 /\ CURRENT_TEMP = PackCurrentTemp(0)
              => read_ret.result = 30)

C3_Witness ==
    /\ Read8895Done /\ data.sensing_mode = "MAX"
    /\ data.sensors = 7 /\ CURRENT_TEMP = PackCurrentTemp(0)
    /\ read_ret.result = 30

\* C4: under MIN with a non-empty mask, exynos8895_tmu_read returns the
\* smallest code among the active sensors; mask 0b111 with codes 10, 20, 30
\* gives 10.
C4_Minimum ==
    (Read8895Done /\ data.sensing_mode = "MIN" /\ data.sensors # 0) =>
        read_ret.result = MinCode(ActiveSensors)

\* C5: the read never reaches the division by an active-sensor count of
\* zero (an empty mask is refused before).
C5_NoDivisionByZeroCount == ~read_ret.div0

\* the slot (register offset within the sensor's block, half-word) every
\* threshold write of the last tmu_initialize used for trip i
SlotOfTrip(i, reg, bit) ==
    \A k \in 1..Len(init_ret.log) :
        init_ret.log[k].trip = i =>
            /\ init_ret.log[k].reg
                 - (IF init_ret.log[k].sensor > 0
                    THEN EXYNOS_THD_TEMP_R_OFFSET ELSE 0) = reg
            /\ init_ret.log[k].bit = bit

\* C6, as stated: trip 7 -> (0, 0), trip 6 -> (0, 1), trip 5 -> (4, 0).
C6_SlotsAsStated ==
    SlotOfTrip(7, 0, 0) /\ SlotOfTrip(6, 0, 1) /\ SlotOfTrip(5, 4, 0)

\* C6, amended: trip 7 -> (0, 1), trip 6 -> (0, 0), trip 5 -> (4, 1): within
\* each register the higher trip of a pair takes the upper half-word, and
\* after programming that half-word's 9-bit field holds the trip's code.
C6_Slots ==
    /\ SlotOfTrip(7, 0, 1) /\ SlotOfTrip(6, 0, 0) /\ SlotOfTrip(5, 4, 1)
    /\ \A k \in 1..Len(init_ret.log) :
          LET w == init_ret.log[k]
          IN  (w.trip \in {5, 6, 7} /\ w.rcode \in 0..EXYNOS_TMU_TEMP_MASK
               /\ \A m \in 1..Len(init_ret.log) :
                     init_ret.log[m].rcode \in 0..EXYNOS_TMU_TEMP_MASK)
              => ThdField(THD_RISE[w.reg], IF w.trip = 6 THEN 0 ELSE 1) = w.rcode

C6_Witness ==
    /\ init_ret.runs > 0
    /\ \A i \in {5, 6, 7} :
          \E k \in 1..Len(init_ret.log) : init_ret.log[k].trip = i
    /\ \A k \in 1..Len(init_ret.log) :
          init_ret.log[k].rcode \in 1..EXYNOS_TMU_TEMP_MASK
    /\ THD_RISE[0] # U32(0)

\* C7: a second tmu_initialize in a row (trip points unchanged) leaves every
\* rising and falling threshold register as the first run left it.
C7_Idempotent ==
    [][(init_ret.runs >= 1 /\ init_ret'.runs = init_ret.runs + 1)
          => (THD_RISE' = THD_RISE /\ THD_FALL' = THD_FALL)]_vars

\* C7 witness: two runs in a row that programmed thresholds over registers
\* that did not start at zero
C7_Witness ==
    /\ init_ret.runs = 2
    /\ Len(init_ret.log) > 0
    /\ \E o \in ThdOffsets : THD_RISE[o] # U32(0) /\ THD_FALL[o] # U32(0)

\* C8: a trip whose hysteresis exceeds its temperature (temp - hyst
\* negative) is rejected or flagged by threshold programming: no falling
\* code is written for it while tmu_initialize reports success.
C8_NegativeFallingRejected ==
    init_ret.runs > 0 =>
        \A k \in 1..Len(init_ret.log) :
            TripTempHist(tz.trips, init_ret.log[k].trip) < 0
                => init_ret.ret # 0

\* the report in whole degrees, as the thresholds are
ReportCelsius == CDiv(hp_ret.temp, MCELSIUS)

\* C9: with in_threshold < out_threshold, a report moves NORMAL to
\* THROTTLED exactly when it is >= out_threshold and THROTTLED to NORMAL
\* exactly when it is < in_threshold; a core-count request is issued exactly
\* on a transition (NR_HOTPLUG_CPUS on throttle, NR_CPUS on release).  The
\* report and the thresholds are compared in whole degrees Celsius, the
\* report being temp / MCELSIUS (the unit itself is the subject of C10).
C9_Hysteresis ==
    (hp_ret.called /\ data.hotplug_in_threshold < data.hotplug_out_threshold) =>
        /\ ~hp_ret.was_out =>
              (is_cpu_hotplugged_out <=> ReportCelsius >= data.hotplug_out_threshold)
        /\ hp_ret.was_out =>
              (~is_cpu_hotplugged_out <=> ReportCelsius < data.hotplug_in_threshold)
        /\ (hp_ret.request = "NR_HOTPLUG_CPUS")
              <=> (~hp_ret.was_out /\ is_cpu_hotplugged_out)
        /\ (hp_ret.request = "NR_CPUS")
              <=> (hp_ret.was_out /\ ~is_cpu_hotplugged_out)
        /\ (hp_ret.request = "none")
              <=> (hp_ret.was_out = is_cpu_hotplugged_out)
        /\ hp_ret.request # "none"
              => thermal_cpu_hotplug_request = hp_ret.request

C9_Witness ==
    /\ hp_ret.called /\ data.hotplug_in_threshold < data.hotplug_out_threshold
    /\ hp_ret.was_out /\ ~is_cpu_hotplugged_out
    /\ hp_ret.request = "NR_CPUS"
    /\ thermal_cpu_hotplug_request = "NR_CPUS"

\* C10, as stated: thresholds in milli-Celsius, in = 70000, out = 85000: a
\* report of 86000 while NORMAL yields THROTTLED.
C10_MilliCelsiusThresholds ==
    (hp_ret.called /\ data.hotplug_in_threshold = 70000
     /\ data.hotplug_out_threshold = 85000) =>
        (hp_ret.temp = 86000 /\ ~hp_ret.was_out => is_cpu_hotplugged_out)

\* C10, amended: the report (milli-Celsius) is divided by 1000 and compared
\* with thresholds in whole degrees: with in = 70, out = 85 a report of 86000
\* while NORMAL yields THROTTLED, 75000 while THROTTLED stays THROTTLED,
\* 69000 while THROTTLED yields NORMAL, 72000 while NORMAL stays NORMAL.
C10_CelsiusThresholds ==
    (hp_ret.called /\ data.hotplug_in_threshold = 70
     /\ data.hotplug_out_threshold = 85) =>
        /\ (hp_ret.temp = 86000 /\ ~hp_ret.was_out) => is_cpu_hotplugged_out
        /\ (hp_ret.temp = 75000 /\ hp_ret.was_out) => is_cpu_hotplugged_out
        /\ (hp_ret.temp = 69000 /\ hp_ret.was_out) => ~is_cpu_hotplugged_out
        /\ (hp_ret.temp = 72000 /\ ~hp_ret.was_out) => ~is_cpu_hotplugged_out

C10_Witness ==
    /\ hp_ret.called /\ data.hotplug_in_threshold = 70
    /\ data.hotplug_out_threshold = 85
    /\ hp_ret.temp = 69000 /\ hp_ret.was_out /\ ~is_cpu_hotplugged_out

\* C11: the suspend notifier is on the PM chain exactly once while the
\* device registry is not empty and not at all while it is empty: the first
\* probe registers it, a further probe does not register again, a remove
\* that leaves a device does not unregister, the last remove unregisters.
C11_NotifierOnceIffRegistry ==
    pm_notifier = IF dtm_dev_list # <<>> THEN 1 ELSE 0

\* C11 witness: of two probed devices one was removed, the other remains
\* and the notifier is still registered once
C11_Witness ==
    /\ life_ret.op = "remove" /\ life_ret.ret = "0"
    /\ Len(life_ret.before) = 2 /\ Len(dtm_dev_list) = 1
    /\ dev[dtm_dev_list[1]].state = "bound"
    /\ pm_notifier = 1

\* a step in which the PM core delivered event to exynos_pm_notifier
NotifierCalled(event) ==
    /\ pm_phase' # pm_phase /\ pm_notifier > 0
    /\ life_ret'.op = event

EmulCode == temp_to_code(pdata, data, CDiv(emul_ret.temp, MCELSIUS))

\* the bits of the emulation control register outside the enable bit
EmulRest(val) == [hi |-> val.hi, lo |-> val.lo - (val.lo % 2)]

WorkActive(d) == dev[d].pending \/ dev[d].pc # "idle"

\* C14: when exynos_tmu_remove has returned for a device, no deferred trip
\* handler of that device is pending or running, and none takes a step
\* afterwards.
C14_RemoveQuiesces ==
    /\ [](\A d \in Devices : dev[d].state = "removed" => ~WorkActive(d))
    /\ [][\A d \in Devices :
             dev[d].state = "removed" /\ dev'[d].state = "removed" =>
                dev'[d].pc = dev[d].pc /\ dev'[d].pending = dev[d].pending]_vars

\* the devices of a registry have pairwise distinct ids
DistinctIds(list) ==
    \A i, j \in 1..Len(list) : i # j => dev[list[i]].id # dev[list[j]].id

\* C15: exynos_tmu_remove of device D on a registry with pairwise distinct
\* ids completes, leaves the registry equal to its previous content without
\* D in the same order, and its traversal follows no link of a node it has
\* unlinked.
C15_RemoveUnlinksCleanly ==
    (life_ret.op = "remove" /\ DistinctIds(life_ret.before)) =>
       /\ life_ret.ret = "0"
       /\ dtm_dev_list = SelectSeq(life_ret.before, LAMBDA x : x # life_ret.dev)
       /\ ~life_ret.stale

\* C16: after exynos_tmu_probe has returned an error, whatever the step
\* that failed, the device holds no cooling device, no pm_qos request, no
\* remote-sensor allocation, no sensor registration and no interrupt, and
\* is not on the registry.
C16_ProbeRollsBack ==
    \A d \in Devices :
       dev[d].state = "failed" =>
          /\ ~dev[d].cool_dev
          /\ ~dev[d].pm_qos
          /\ ~dev[d].remote_sensors
          /\ ~dev[d].tzd
          /\ ~dev[d].irq
          /\ \A i \in 1..Len(dtm_dev_list) : dtm_dev_list[i] # d

\* the timer input rate the last pwm_samsung_config call worked with
ConfigTin ==
    pwm_samsung_calc_tin(variant,
                         [clk EXCEPT !.div_rate = pwm_ret.before.div_rate],
                         NSEC_PER_SEC \div pwm_ret.period_ns)

\* the last pwm_samsung_config call had to compute a new tick time
ConfigRetunes ==
    /\ pwm_ret.op = "config"
    /\ pwm_ret.period_ns <= NSEC_PER_SEC
    /\ pwm_ret.period_ns # pwm_ret.before.chan.period_ns

\* C17: pwm_samsung_config returns an error when period_ns exceeds one
\* second, when the timer input rate is zero, or when the period rounds to
\* at most one tick; on every error return the channel's period, duty, tick
\* time and duty-cycle class, TCNTB, TCMPB, TCON and the clock divisor are
\* what they were before the call.
C17_ConfigErrorLeavesState ==
    pwm_ret.op = "config" =>
       /\ pwm_ret.period_ns > NSEC_PER_SEC => pwm_ret.ret = "ERANGE"
       /\ (ConfigRetunes /\ ConfigTin.rate = 0) => pwm_ret.ret = "EINVAL"
       /\ (/\ ConfigRetunes
           /\ ConfigTin.rate # 0
           /\ DIV_ROUND_CLOSEST(pwm_ret.period_ns,
                                NSEC_PER_SEC \div ConfigTin.rate) <= 1)
             => pwm_ret.ret = "ERANGE"
       /\ pwm_ret.ret # "0" => PwmSnapshot = pwm_ret.before

\* C18: from exynos_tmu_irq until the last step of the device's deferred
\* handler the interrupt line stays masked, and never are two handlers of
\* one device pending or running; the step of exynos_tmu_irq itself leaves
\* every TMU register as it was.
C18_MaskedWhileHandling ==
    /\ [](\A d \in Devices :
            WorkActive(d) =>
               /\ dev[d].depth >= 1
               /\ ~(dev[d].pending /\ dev[d].pc # "idle"))
    /\ [][\A d \in Devices :
             (~dev[d].pending /\ dev'[d].pending) =>
                /\ dev'[d].depth = dev[d].depth + 1
                /\ dev'[d].inten = dev[d].inten
                /\ dev'[d].pend = dev[d].pend
                /\ tmuVars' = tmuVars]_vars

\* the handlers of two devices run at the same time, each with its own line
\* masked
C18_Witness ==
    \E d1, d2 \in Devices :
       /\ d1 # d2
       /\ dev[d1].pc = "clear" /\ dev[d1].depth = 1
       /\ dev[d2].pc = "report" /\ dev[d2].depth = 1
       /\ dev[d1].state = "bound" /\ dev[d2].state = "bound"

\* position of the first occurrence of a step in a trace, 0 if it is absent
RECURSIVE FirstAt(_, _, _)
FirstAt(trace, step, i) ==
    IF i > Len(trace) THEN 0
    ELSE IF trace[i] = step THEN i
    ELSE FirstAt(trace, step, i + 1)

\* C19: on probe, on the resume hook and in the deferred handler the
\* pending bits are cleared before the interrupt enable register is written
\* non-zero and before the line is unmasked; the deferred handler emits the
\* trip event before it clears the pending bits.
C19_ClearBeforeEnable ==
    life_ret.op \in {"probe", "resume", "work"} =>
       /\ \A i \in 1..Len(life_ret.trace) :
             life_ret.trace[i] \in {"inten_on", "unmask"} =>
                /\ FirstAt(life_ret.trace, "clear_irqs", 1) > 0
                /\ FirstAt(life_ret.trace, "clear_irqs", 1) < i
       /\ life_ret.op \in {"resume", "work"} \/ life_ret.ret = "0" =>
             /\ FirstAt(life_ret.trace, "clear_irqs", 1) > 0
             /\ \E i \in 1..Len(life_ret.trace) :
                   life_ret.trace[i] \in {"inten_on", "unmask"}
       /\ life_ret.op = "work" =>
             /\ FirstAt(life_ret.trace, "uevent", 1) > 0
             /\ FirstAt(life_ret.trace, "uevent", 1)
                  < FirstAt(life_ret.trace, "clear_irqs", 1)

\* a deferred handler that ran to its end on a bound device: event, clear,
\* unmask, with the line unmasked and no bit pending afterwards
C19_Witness ==
    /\ life_ret.op = "work"
    /\ life_ret.trace = <<"uevent", "clear_irqs", "unmask">>
    /\ dev[life_ret.dev].state = "bound"
    /\ dev[life_ret.dev].depth = 0
    /\ ~dev[life_ret.dev].pend

\* the trips of the zone, by index 0..ntrips-1, that lie strictly above the
\* zone's last temperature
TripsAbove ==
    {i \in 0..(Len(tz.trips) - 1) : tz.trips[i + 1].temp > zone.last_temperature}

\* C20: the index carried by the trip-change event is the smallest index
\* whose trip temperature is strictly greater than the zone's last
\* temperature, and the number of trips when there is none; a trip whose
\* temperature equals the last temperature is counted as exceeded.
C20_TripLevel ==
    uevent.sent =>
       /\ TripsAbove = {} => uevent.level = Len(tz.trips)
       /\ TripsAbove # {} =>
             /\ uevent.level \in TripsAbove
             /\ \A i \in TripsAbove : uevent.level <= i
       /\ \A i \in 0..(Len(tz.trips) - 1) :
             (\A j \in 0..i : tz.trips[j + 1].temp <= zone.last_temperature) =>
                uevent.level > i

\* an event for a temperature equal to the first trip of a table with a
\* higher trip left
C20_Witness ==
    /\ uevent.sent
    /\ Len(tz.trips) >= 2
    /\ tz.trips[1].temp = zone.last_temperature
    /\ uevent.level >= 1
    /\ uevent.level < Len(tz.trips)

\* a step of exynos_tmu_work: the queued irq_work is taken and run
WorkRuns == irq_line.queued /\ ~irq_line'.queued

\* C21: when the deferred handler runs for a device without a thermal
\* zone, no temperature update is requested and no event is emitted, the
\* work is not queued again, and the handler still clears the pending bits
\* of the device and unmasks the line.
C21_WorkWithoutZone ==
    [][(WorkRuns /\ ~zone.set) =>
          /\ ~work_ret'.updated
          /\ ~uevent'.sent
          /\ zone' = zone
          /\ ~irq_line'.queued
          /\ \A o \in ActivePendRegs(data.sensors) : INTPEND'[o] = 0
          /\ irq_line'.depth = irq_line.depth - 1]_vars

\* the handler has run without a zone on pending bits, and the line is
\* unmasked with nothing pending
C21_Witness ==
    /\ work_ret.ran
    /\ ~zone.set
    /\ ~work_ret.updated
    /\ \E o \in ActivePendRegs(data.sensors) : work_ret.before[o] # 0
    /\ \A o \in ActivePendRegs(data.sensors) : INTPEND[o] = 0
    /\ irq_line = [depth |-> 0, queued |-> FALSE]

\* C22: every interrupt taken by exynos_tmu_irq is followed by the line
\* being unmasked again once the scheduled work has run; masks and unmasks
\* stay balanced (the disable depth of a line is 1 while the device's
\* handler is pending or running and 0 otherwise), so no device's handler
\* keeps another device's line masked.
C22_IrqLeadsToUnmask ==
    /\ \A d \in Devices : dev[d].pending ~> (dev[d].depth = 0)
    /\ [](\A d \in Devices :
            dev[d].depth = IF WorkActive(d) THEN 1 ELSE 0)

\* a handler has finished and unmasked its line on a suspended device while
\* the handler of another device is still running with its own line masked
C22_Witness ==
    /\ life_ret.op = "work"
    /\ dev[life_ret.dev].depth = 0
    /\ dev[life_ret.dev].asleep
    /\ \E d \in Devices :
          /\ d # life_ret.dev
          /\ dev[d].pc = "clear"
          /\ dev[d].depth = 1

\* the interrupt-enable registers of the active sensors in mask
ActiveIntenRegs(mask) ==
    {IntenReg(i) : i \in {k \in 0..(TOTAL_SENSORS - 1) : SensorActive(mask, k)}}

SuspendReturned == tmu_state = "asleep" /\ ctl_ret.op = "suspend"

ResumeReturned == tmu_state = "active" /\ ctl_ret.op = "resume"

\* the threshold blocks tmu_initialize programs: the main block, and for
\* exynos8895 the block at EXYNOS_THD_TEMP_R_OFFSET
ProgrammedBlocks ==
    IF soc = "EXYNOS8890" THEN {0}
    ELSE IF tz.governor_name = "power_allocator" THEN {}
    ELSE {0 : j \in {k \in {0} : SensorActive(data.sensors, k)}}
         \cup {EXYNOS_THD_TEMP_R_OFFSET :
                  j \in {k \in 1..(TOTAL_SENSORS - 1) : SensorActive(data.sensors, k)}}

FoundAtReset ==
    /\ \A o \in DOMAIN ctl_ret.found.rise : ctl_ret.found.rise[o] = U32(0)
    /\ \A o \in DOMAIN ctl_ret.found.fall : ctl_ret.found.fall[o] = U32(0)

C25_PowerAllocatorFrame ==
    (ctl_ret.op = "probe" /\ tz.governor_name = "power_allocator") =>
        /\ THD_RISE = ctl_ret.found.rise
        /\ THD_FALL = ctl_ret.found.fall
        /\ INTEN = ctl_ret.found.inten

\* no probe and no remove is under way
RaceQuiescent ==
    \A d \in Devices : dev[d].state \in {"unbound", "bound", "removed"}

\* C26: under every interleaving of probes and removes of different
\* devices with the notifier, once they have all returned the registry holds
\* exactly the bound devices and the notifier is registered exactly once
\* when the registry is not empty; it is never registered twice.
C26_RegistryGuarded ==
    /\ pm_notifier <= 1
    /\ RaceQuiescent =>
          /\ {dtm_dev_list[k] : k \in 1..Len(dtm_dev_list)}
                = {d \in Devices : dev[d].state = "bound"}
          /\ Len(dtm_dev_list) > 0 => pm_notifier = 1

\* C27: after initialization a device in two-point mode has temp_error2
\* different from temp_error1, and no conversion of a code to a temperature
\* divides by zero.
C27_TwoPointDistinct ==
    init_ret.runs > 0 =>
        /\ pdata.cal_type = TYPE_TWO_POINT_TRIMMING
              => data.temp_error2 # data.temp_error1
        /\ conv.applied => ~conv.div0

\* a Celsius temperature clamped to [EXYNOS_MIN_TEMP, EXYNOS_MAX_TEMP]
ClampTemp(t) ==
    IF t > EXYNOS_MAX_TEMP THEN EXYNOS_MAX_TEMP
    ELSE IF t < EXYNOS_MIN_TEMP THEN EXYNOS_MIN_TEMP
    ELSE t

\* C28: the code temp_to_code returns for an integer temperature is the
\* code of that temperature clamped to [EXYNOS_MIN_TEMP, EXYNOS_MAX_TEMP];
\* here for the rising and falling temperatures of threshold programming.
C28_CodeOfClampedTemp ==
    \A k \in 1..Len(init_ret.log) :
        LET e == init_ret.log[k]
        IN  /\ e.rcode = temp_to_code(pdata, data,
                                      ClampTemp(TripTemp(tz.trips, e.trip)))
            /\ e.fcode = temp_to_code(pdata, data,
                                      ClampTemp(TripTempHist(tz.trips, e.trip)))

\* C29: after threshold programming with at most eight trips, for every
\* configured trip i the 9-bit field at register ((7 - i) / 2) * 4,
\* half-word (8 - i) % 2 of the rising bank holds temp_to_code of the trip
\* temperature and the same slot of the falling bank holds temp_to_code of
\* the temperature less the hysteresis (whole Celsius), in every block that
\* was programmed; distinct trips have distinct slots.
C29_FieldsHoldCodes ==
    (init_ret.runs > 0 /\ Len(tz.trips) <= 8) =>
        /\ \A b \in ProgrammedBlocks, i \in 0..7 :
              i < Len(tz.trips) =>
                 /\ ThdField(THD_RISE[reg_off(i) + b], bit_off(i))
                      = temp_to_code(pdata, data, TripTemp(tz.trips, i))
                 /\ ThdField(THD_FALL[reg_off(i) + b], bit_off(i))
                      = temp_to_code(pdata, data, TripTempHist(tz.trips, i))
        /\ \A i, k \in 0..7 :
              (reg_off(i) = reg_off(k) /\ bit_off(i) = bit_off(k)) => i = k

\* C30: in exynos8895 threshold programming no two distinct active sensors
\* have their thresholds written to the same register: the main sensor
\* uses the main block and every active remote sensor a block of its own.
C30_OwnBlockPerSensor ==
    soc = "EXYNOS8895" =>
        \A k, m \in 1..Len(init_ret.log) :
            init_ret.log[k].sensor # init_ret.log[m].sensor
                => init_ret.log[k].reg # init_ret.log[m].reg

Misconfigured == data.hotplug_in_threshold >= data.hotplug_out_threshold

\* C31: with hotplug_in_threshold >= hotplug_out_threshold the thresholds
\* are never changed, and a report still moves THROTTLED to NORMAL exactly
\* when it is below hotplug_in_threshold and NORMAL to THROTTLED exactly when
\* it is at or above hotplug_out_threshold: the throttle is released, and a
\* report between the two thresholds toggles the state at every call.
C31_MisconfiguredToggles ==
    /\ [](( hp_ret.called /\ Misconfigured) =>
            /\ hp_ret.was_out =>
                  (is_cpu_hotplugged_out <=> ReportCelsius >= data.hotplug_in_threshold)
            /\ ~hp_ret.was_out =>
                  (is_cpu_hotplugged_out <=> ReportCelsius >= data.hotplug_out_threshold))
    /\ [][/\ data'.hotplug_in_threshold = data.hotplug_in_threshold
          /\ data'.hotplug_out_threshold = data.hotplug_out_threshold]_vars

\* a throttled state released by a report at or above the out threshold
C31_Witness ==
    /\ hp_ret.called
    /\ data.hotplug_in_threshold > data.hotplug_out_threshold
    /\ hp_ret.was_out
    /\ ~is_cpu_hotplugged_out
    /\ ReportCelsius >= data.hotplug_out_threshold
    /\ hp_ret.request = "NR_CPUS"

\* C31 as stated: with the misconfiguration, THROTTLED is never left
C31_NeverReleases ==
    [][(Misconfigured /\ is_cpu_hotplugged_out) => is_cpu_hotplugged_out']_vars

\* C32: a set_cur_temp call of exynos_get_temp carries the value of the
\* suspended flag at the time of the call, which is true from a
\* PM_SUSPEND_PREPARE the notifier has handled until the next
\* PM_POST_SUSPEND it handles and false otherwise; a device with id 1 or
\* without a cooling device makes no call.
C32_ReportCarriesFlag ==
    /\ [](life_ret.op = "get_temp" =>
            life_ret.trace =
               IF dev[life_ret.dev].cool_dev /\ dev[life_ret.dev].id # 1
               THEN << SetCurTemp(suspended) >> ELSE << >>)
    /\ [][/\ NotifierCalled("PM_SUSPEND_PREPARE") => suspended'
          /\ NotifierCalled("PM_POST_SUSPEND") => ~suspended'
          /\ (life_ret'.op = "get_temp" /\ life_ret' # life_ret)
                => suspended' = suspended]_vars

\* a report made between the two notifier events carries true
C32_Witness ==
    /\ life_ret.op = "get_temp"
    /\ life_ret.trace = << "set_cur_temp(true)" >>
    /\ pm_phase = "suspending"
    /\ suspended
    /\ \E d \in Devices : dev[d].state = "bound" /\ dev[d].id = 1


\* C33: exynos8895_tmu_initialize stores into remote_sensors only at
\* indices below the number of entries exynos_map_dt_data allocated (the
\* count of set bits among sensor bits 1..7): no store past the end is made
C33_RemoteIndexInBounds ==
    (soc = "EXYNOS8895" /\ init_ret.runs > 0) => data.oob = {}


---------------------------------------------------------------------------
(* exynos-pm.c: specifications                                             *)

\* what a listener answers to LPA_ENTER
ListenerAnswers == {NOTIFY_OK, NOTIFY_STOP, NOTIFY_BAD}

\* the LPA notifier chain: listeners come and go, LPA entry is attempted
InitLpa ==
    /\ InitTmuIdle
    /\ InitPwmIdle
    /\ InitLifeWith([d \in Devices |-> d - 1], FALSE, FALSE)
    /\ InitTrigWith(FALSE)
    /\ InitWorkIdle
    /\ InitPmIdle
    /\ InitChipIdle
    /\ InitCtlIdle

NextLpa ==
    \/ \E answer \in ListenerAnswers : exynos_pm_register_notifier(answer)
    \/ \E i \in 1..MaxListeners : exynos_pm_unregister_notifier(i)
    \/ \E stack \in StackValues : exynos_pm_lpa_enter(stack)

SpecLpa == InitLpa /\ [][NextLpa]_vars

\* the suspend cycle: syscore suspend, platform enter, syscore resume, and
\* writes to the debugfs flag at any point
InitCycle ==
    /\ InitTmuIdle
    /\ InitPwmIdle
    /\ InitLifeWith([d \in Devices |-> d - 1], FALSE, FALSE)
    /\ InitTrigWith(FALSE)
    /\ InitWorkIdle
    /\ \E dt \in {<<8, 1024, 4, 128>>, <<7, 512, 5, 256>>} : InitPmWith(dt)
    /\ InitChipIdle
    /\ InitCtlIdle

NextCycle ==
    \/ \E cp_status \in BOOLEAN, aud \in BOOLEAN :
          exynos_pm_syscore_suspend(cp_status, aud)
    \/ \E early \in BOOLEAN : exynos_pm_enter(early)
    \/ exynos_pm_syscore_resume
    \/ \E v \in {0, 1} : DebugfsWriteTestCpCall(v)

SpecCycle == InitCycle /\ [][NextCycle]_vars

\* the listener whose answer to LPA_ENTER ended the walk with an error, as
\* the last exynos_pm_lpa_enter saw the chain (0: none)
Rejecting ==
    LET n == Len(lpa_ret.enter)
    IN  IF n > 0 /\ notifier_to_errno(lpa_ret.chain[n]) # 0 THEN n ELSE 0

\* C34: when a listener rejects LPA_ENTER, exynos_pm_lpa_enter returns its
\* error and LPA_ENTER_FAIL goes to exactly the listeners called before it,
\* in chain order; when none rejects, 0 is returned and no LPA_ENTER_FAIL
\* is delivered
C34_FailToEarlierListeners ==
    lpa_ret.called =>
       IF Rejecting # 0
       THEN /\ lpa_ret.ret = notifier_to_errno(lpa_ret.chain[Rejecting])
            /\ lpa_ret.fail = [i \in 1..(Rejecting - 1) |-> i]
       ELSE /\ lpa_ret.ret = 0
            /\ lpa_ret.fail = << >>

\* the indices of one cycle belong to one scenario
SameScenario ==
    /\ pm_cycle.psci # -1 =>
          (pm_cycle.psci = pm_info.cp_call_psci_idx
             <=> pm_cycle.prepare = pm_info.cp_call_mode_idx)
    /\ pm_cycle.psci # -1 =>
          pm_cycle.psci \in {pm_info.cp_call_psci_idx, pm_info.suspend_psci_idx}
    /\ pm_cycle.wakeup # -1 => pm_cycle.wakeup = pm_cycle.prepare

C36_RunningBits ==
    pwm_chan.running = 1 =>
       /\ TCON_START(to_tcon_channel(hwpwm)) \in TCON
       /\ (TCON_AUTORELOAD(to_tcon_channel(hwpwm)) \in TCON
             <=> pwm_chan.duty_cycle # "DUTY_CYCLE_ZERO")


---------------------------------------------------------------------------
(* pwm-samsung.c: one channel of a probed chip, with the sleep hooks       *)

\* TCON as the boot loader or the clocksource driver left it before the
\* probe: nothing running, or the other output channels running
TconBefore(outputs, channel) ==
    { {},
      UNION { {TCON_START(to_tcon_channel(c)), TCON_AUTORELOAD(to_tcon_channel(c))} :
                 c \in outputs \ {channel} } }

\* the chip after pwm_samsung_probe, the channel not yet requested
InitChip ==
    /\ InitTmuIdle
    /\ InitLifeWith([d \in Devices |-> d - 1], FALSE, FALSE)
    /\ InitTrigWith(FALSE)
    /\ InitWorkIdle
    /\ InitPmIdle
    /\ InitCtlIdle
    /\ variant = [bits |-> 32, div_base |-> 0]
    /\ clk = [parent_rate |-> 66000000, div_rate |-> 66000000,
              is_tdiv |-> TRUE, tin_rate |-> 0]
    /\ pwm_chan = [period_ns |-> 0, duty_ns |-> 0, tin_ns |-> 0, running |-> 0,
                   duty_cycle |-> "DUTY_CYCLE_ZERO"]
    /\ TCNTB = U32(0)
    /\ TCMPB = U32(0)
    /\ requested = FALSE
    /\ pwm_asleep = FALSE
    /\ \E outputs \in {{0, 1, 2, 3}, {0, 2}}, channel \in {0, 1, 2} :
          \E tcon \in TconBefore(outputs, channel) :
             LET p == pwm_samsung_probe(tcon, outputs)
             IN  /\ output_mask = outputs
                 /\ hwpwm = channel
                 /\ inverter_mask = p.inverter_mask
                 /\ TCON = p.tcon
                 /\ pwm_ret = [op |-> "probe", ret |-> "0", duty_ns |-> 0,
                               period_ns |-> 0,
                               before |-> [chan |-> pwm_chan, tcntb |-> TCNTB,
                                           tcmpb |-> TCMPB, tcon |-> tcon,
                                           div_rate |-> clk.div_rate],
                               writes |-> [i \in 1..Cardinality(outputs) |-> "TCON"]]

\* periods handed to pwm_samsung_config: shorter than a tick, and ordinary
ChipPeriods == {10, 1000000, 2000000}

NextChip ==
    \/ pwm_samsung_request
    \/ pwm_samsung_free
    \/ \E polarity \in {"PWM_POLARITY_NORMAL", "PWM_POLARITY_INVERSED"} :
          pwm_samsung_set_polarity(polarity)
    \/ \E period_ns \in ChipPeriods :
          \E duty_ns \in PwmDuties(period_ns) :
             InUse /\ pwm_samsung_config(duty_ns, period_ns)
    \/ InUse /\ pwm_samsung_enable
    \/ InUse /\ pwm_samsung_disable
    \/ pwm_samsung_suspend
    \/ pwm_samsung_resume

SpecChip == InitChip /\ [][NextChip]_vars

\* the TCON bits that belong to no channel but c
OtherBits(tcon, c) == tcon \ ChannelBits(c)

\* C37: an operation on channel c (request, config, enable, disable,
\* set_polarity, the step of pwm_samsung_suspend for c) changes only the
\* TCON bits of channel c
C37_OtherChannelsUntouched ==
    [][pwm_ret'.op # "resume" =>
          OtherBits(TCON', hwpwm) = OtherBits(TCON, hwpwm)]_vars

\* C38: for every output channel c, bit c of inverter_mask equals the TCON
\* INVERT bit of channel c
C38_MaskIsHardware ==
    \A c \in output_mask :
       c \in inverter_mask <=> TCON_INVERT(to_tcon_channel(c)) \in TCON


\* C39: a config whose period and duty equal the recorded ones returns 0
\* and writes no register; pwm_samsung_suspend invalidates the record of
\* a requested channel, the record stays invalid until a config succeeds
\* (or the channel is requested anew), and a config that succeeds on an
\* invalidated record writes TCNTB and TCMPB
C39_RecordShortCircuits ==
    /\ [](pwm_ret.op = "config" =>
            /\ ( /\ pwm_ret.period_ns = pwm_ret.before.chan.period_ns
                 /\ pwm_ret.duty_ns = pwm_ret.before.chan.duty_ns )
               => /\ pwm_ret.ret = "0"
                  /\ pwm_ret.writes = << >>
                  /\ PwmSnapshot = pwm_ret.before
            /\ (pwm_ret.before.chan.period_ns = -1 /\ pwm_ret.ret = "0")
               => /\ Len(pwm_ret.writes) >= 2
                  /\ SubSeq(pwm_ret.writes, 1, 2) = << "TCNTB", "TCMPB" >>
                  /\ pwm_chan.period_ns = pwm_ret.period_ns
                  /\ pwm_chan.duty_ns = pwm_ret.duty_ns)
    /\ []((pwm_asleep /\ requested) =>
            (pwm_chan.period_ns = -1 /\ pwm_chan.duty_ns = -1))
    /\ [][(pwm_chan.period_ns = -1 /\ pwm_chan'.period_ns # -1) =>
            \/ pwm_ret'.op = "request"
            \/ pwm_ret'.op = "config" /\ pwm_ret'.ret = "0"]_vars

\* a channel that had been configured, after a suspend and a resume: the
\* first config that succeeds has written TCNTB and TCMPB
C39_Witness ==
    /\ pwm_ret.op = "config"
    /\ pwm_ret.ret = "0"
    /\ pwm_ret.before.chan.period_ns = -1
    /\ pwm_ret.before.chan.tin_ns # 0
    /\ pwm_ret.writes = << "TCNTB", "TCMPB" >>
    /\ ~pwm_asleep

=========================================================================














